---- MODULE Spec2Model ----
(***************************************************************************)
(* State-machine model of the Span canvas: the node and edge stores        *)
(* (useNodes, useEdges), the undo/redo history (useHistory), the project   *)
(* flags (useProject) and the interaction controller (Canvas).             *)
(*                                                                         *)
(* One action models one event handler, run to completion: React applies   *)
(* the state updates a handler queues before the next event is handled, so *)
(* a handler reads the values of the last render and its functional        *)
(* updaters compose in call order.                                         *)
(*                                                                         *)
(* Ids are strings made of a timestamp and a random suffix in the source;  *)
(* here they are the integers 1, 2, ... handed out by two counters, so an  *)
(* id is never reused.  null is 0 for an id, and the empty sequence for an *)
(* optional descriptor (a set descriptor is a one-element sequence).       *)
(***************************************************************************)
EXTENDS Integers, Sequences, FiniteSets, TLC

VARIABLES
    nodes,              \* useNodes: NodeMap, id -> Node
    edges,              \* useEdges: EdgeMap, id -> Edge
    nextNode,           \* number of node ids handed out by generateId
    nextEdge,           \* number of edge ids handed out by generateId
    past,               \* useHistory: past snapshots, oldest first
    future,             \* useHistory: future snapshots
    isUndoingRef,       \* useHistory: the in-progress flag
    selectedNodeIds,    \* Canvas: set of selected node ids
    selectedEdgeId,     \* Canvas: selected edge id, 0 when null
    editing,            \* Canvas: edit descriptor, <<>> when null
    connectionDrag,     \* Canvas: connection-drag descriptor, <<>> when null
    draggingNodes,      \* Canvas: visual-position overrides, id -> point
    dragStartPositions, \* Canvas: captured drag start positions, id -> point
    copiedNodes,        \* Canvas: copied nodes, a sequence of Node
    pasteOffset,        \* Canvas: centroid of the copy, plus the stagger
    isDirty,            \* useProject: dirty flag
    camera,             \* useCanvas: pan offset and zoom scale
    projectName,        \* useProject: project name
    currentFilePath,    \* useProject: current file path, "" when null
    pendingLoad,        \* path of the load in flight, <<>> when none
    pendingSave,        \* path and data of the save in flight, <<>> when none
    disk,               \* the files: path -> modification time and text
    gesture,            \* the pointer: the Konva drag in flight, if any
    session,            \* the kind of gesture the user works with in this run
    lastOp,             \* name of the handler that ran last
    lastRet,            \* what undo / redo / createEdge returned to it
    budget,             \* history-recording actions still allowed
    streak              \* the actions, undos and redos of a run of SpecHistory

vars == <<nodes, edges, nextNode, nextEdge, past, future, isUndoingRef,
          selectedNodeIds, selectedEdgeId, editing, connectionDrag,
          draggingNodes, dragStartPositions, copiedNodes, pasteOffset,
          isDirty, camera, projectName, currentFilePath, pendingLoad, pendingSave, disk,
          gesture, session, lastOp, lastRet, budget, streak>>

(***************************************************************************)
(* Bounds of the model.                                                    *)
(***************************************************************************)
MaxNodes == 4       \* node ids handed out in one run
MaxOps == 2         \* history-recording actions in a run of Spec
MaxHistoryOps == 4  \* history-recording actions in a run of SpecHistory
Precision == 8      \* bits of the mantissa of a number of the camera
MaxCameraOps == 3   \* wheel and pan steps in a run of SpecCamera
maxSize == 2        \* useHistory's maxSize option (DEFAULT_MAX_SIZE is 50)

(***************************************************************************)
(* Program constants.                                                      *)
(***************************************************************************)
NoId == 0
DefaultWidth == 220
DefaultHeight == 140
MinWidth == 120
MinHeight == 60
TitleHeight == 32
Spacing3 == 16
SNAP_THRESHOLD == 30
PasteStagger == 20
ViewWidth == 800
ViewHeight == 600

EmptyMap == [k \in {} |-> 0]

Point(px, py) == [x |-> px, y |-> py]

\* Screen positions of the pointer at a double click and at a paste.
CreatePoints == {Point(0, 0), Point(260, 0)}
\* Positions Konva reports for a dragged node.
DragPoints == {Point(50, -20)}
\* Screen positions of the pointer during a connection drag.
ConnPoints == {Point(240, 70)}
\* The same in a run of SpecConnect: at the distances 29, 30 and 31 from the
\* left handle (260, 70) of a default-sized node at (260, 0).
SnapPoints == {Point(231, 70), Point(230, 70), Point(229, 70)}

HandlePositions == <<"top", "right", "bottom", "left">>
\* Handles a connection drag is started from.
StartPositions == {"right"}

(***************************************************************************)
(* useNodes                                                                *)
(***************************************************************************)
Merge(r, updates) ==
    [k \in DOMAIN r |-> IF k \in DOMAIN updates THEN updates[k] ELSE r[k]]

Without(m, id) == [k \in DOMAIN m \ {id} |-> m[k]]

With(m, id, v) == [k \in DOMAIN m \cup {id} |-> IF k = id THEN v ELSE m[k]]

NewNode(id, px, py) ==
    [id |-> id, x |-> px, y |-> py,
     width |-> DefaultWidth, height |-> DefaultHeight,
     title |-> "New Node", description |-> "",
     collapsed |-> FALSE, titleColor |-> "unset"]

createNode(ns, id, px, py) == With(ns, id, NewNode(id, px, py))

updateNode(ns, id, updates) ==
    IF id \notin DOMAIN ns THEN ns
    ELSE [ns EXCEPT ![id] = Merge(ns[id], updates)]

moveNode(ns, id, px, py) == updateNode(ns, id, [x |-> px, y |-> py])

Max(a, b) == IF a >= b THEN a ELSE b

\* A resize that stores the size as given.
resizeNodeUnclamped(ns, id, w, h) ==
    updateNode(ns, id, [width |-> w, height |-> h])

resizeNode(ns, id, w, h) ==
    updateNode(ns, id, [width |-> Max(w, MinWidth), height |-> Max(h, MinHeight)])

toggleCollapse(ns, id) ==
    IF id \notin DOMAIN ns THEN ns
    ELSE [ns EXCEPT ![id] = Merge(ns[id], [collapsed |-> ~ns[id].collapsed])]

\* A delete that removes some node when the id is absent.
deleteNodeOrAny(ns, id) ==
    IF id \in DOMAIN ns \/ DOMAIN ns = {} THEN Without(ns, id)
    ELSE Without(ns, CHOOSE k \in DOMAIN ns : TRUE)

deleteNode(ns, id) == Without(ns, id)

\* A delete that stops after the first of the ids.
deleteNodesFirst(ns, ids) ==
    IF ids = {} THEN ns ELSE deleteNode(ns, CHOOSE i \in ids : TRUE)

\* selectedNodeIds.forEach(nodeId => deleteNode(nodeId))
RECURSIVE deleteNodes(_, _)
deleteNodes(ns, ids) ==
    IF ids = {} THEN ns
    ELSE LET id == CHOOSE i \in ids : TRUE
         IN  deleteNodes(deleteNode(ns, id), ids \ {id})

(***************************************************************************)
(* useEdges                                                                *)
(***************************************************************************)
EdgeExists(es, fromNodeId, toNodeId) ==
    \E e \in DOMAIN es :
        \/ es[e].from = fromNodeId /\ es[e].to = toNodeId
        \/ es[e].from = toNodeId /\ es[e].to = fromNodeId

\* A createEdge that looks for an existing edge in the given direction only.
createEdgeOneWay(es, id, fromNodeId, toNodeId) ==
    IF fromNodeId = toNodeId THEN [ok |-> FALSE, edges |-> es]
    ELSE IF \E e \in DOMAIN es : es[e].from = fromNodeId /\ es[e].to = toNodeId
    THEN [ok |-> FALSE, edges |-> es]
    ELSE [ok |-> TRUE,
          edges |-> With(es, id, [id |-> id, from |-> fromNodeId,
                                  to |-> toNodeId, label |-> "unset"])]

\* The result of createEdge: whether an edge was returned, and the store.
createEdge(es, id, fromNodeId, toNodeId) ==
    IF fromNodeId = toNodeId THEN [ok |-> FALSE, edges |-> es]
    ELSE IF EdgeExists(es, fromNodeId, toNodeId) THEN [ok |-> FALSE, edges |-> es]
    ELSE [ok |-> TRUE,
          edges |-> With(es, id, [id |-> id, from |-> fromNodeId,
                                  to |-> toNodeId, label |-> "unset"])]

deleteEdge(es, id) == Without(es, id)

updateEdge(es, id, updates) ==
    IF id \notin DOMAIN es THEN es
    ELSE [es EXCEPT ![id] = Merge(es[id], updates)]

deleteEdgesForNode(es, nodeId) ==
    [k \in {e \in DOMAIN es : es[e].from # nodeId /\ es[e].to # nodeId} |-> es[k]]

(***************************************************************************)
(* useHistory.  A history value is [past, future]; undo and redo return    *)
(* the new history, the maps they applied and their boolean result.        *)
(***************************************************************************)
Snapshot(ns, es) == [nodes |-> ns, edges |-> es]

\* newPast.slice(-maxSize)
LastN(s, n) == IF Len(s) > n THEN SubSeq(s, Len(s) - n + 1, Len(s)) ELSE s

\* A pushState that never trims the past.
pushStateUnbounded(h, undoing, ns, es) ==
    IF undoing THEN h
    ELSE [past |-> Append(h.past, Snapshot(ns, es)), future |-> <<>>]

\* A pushState that keeps the future.
pushStateKeepsFuture(h, undoing, ns, es) ==
    IF undoing THEN h
    ELSE [past |-> LastN(Append(h.past, Snapshot(ns, es)), maxSize),
          future |-> h.future]

\* A pushState that records whatever the flag says.
pushStateAlways(h, undoing, ns, es) ==
    [past |-> LastN(Append(h.past, Snapshot(ns, es)), maxSize), future |-> <<>>]

pushState(h, undoing, ns, es) ==
    IF undoing THEN h
    ELSE [past |-> LastN(Append(h.past, Snapshot(ns, es)), maxSize),
          future |-> <<>>]

Front(s) == SubSeq(s, 1, Len(s) - 1)

Last(s) == s[Len(s)]

\* An undo that takes the oldest snapshot of the past instead of the newest.
undoOldestFirst(h, currentNodes, currentEdges) ==
    IF Len(h.past) = 0
    THEN [ok |-> FALSE, past |-> h.past, future |-> h.future,
          nodes |-> currentNodes, edges |-> currentEdges]
    ELSE [ok |-> TRUE,
          past |-> Tail(h.past),
          future |-> Append(h.future, Snapshot(currentNodes, currentEdges)),
          nodes |-> Head(h.past).nodes,
          edges |-> Head(h.past).edges]

\* An undo that puts the snapshot it applies, not the current graph, on the
\* future.
undoLosesCurrent(h, currentNodes, currentEdges) ==
    IF Len(h.past) = 0
    THEN [ok |-> FALSE, past |-> h.past, future |-> h.future,
          nodes |-> currentNodes, edges |-> currentEdges]
    ELSE [ok |-> TRUE,
          past |-> Front(h.past),
          future |-> Append(h.future, Last(h.past)),
          nodes |-> Last(h.past).nodes,
          edges |-> Last(h.past).edges]

undo(h, currentNodes, currentEdges) ==
    IF Len(h.past) = 0
    THEN [ok |-> FALSE, past |-> h.past, future |-> h.future,
          nodes |-> currentNodes, edges |-> currentEdges]
    ELSE [ok |-> TRUE,
          past |-> Front(h.past),
          future |-> Append(h.future, Snapshot(currentNodes, currentEdges)),
          nodes |-> Last(h.past).nodes,
          edges |-> Last(h.past).edges]

\* A redo that leaves the snapshot it applies on the future.
redoKeepsFuture(h, currentNodes, currentEdges) ==
    IF Len(h.future) = 0
    THEN [ok |-> FALSE, past |-> h.past, future |-> h.future,
          nodes |-> currentNodes, edges |-> currentEdges]
    ELSE [ok |-> TRUE,
          past |-> Append(h.past, Snapshot(currentNodes, currentEdges)),
          future |-> h.future,
          nodes |-> Last(h.future).nodes,
          edges |-> Last(h.future).edges]

redo(h, currentNodes, currentEdges) ==
    IF Len(h.future) = 0
    THEN [ok |-> FALSE, past |-> h.past, future |-> h.future,
          nodes |-> currentNodes, edges |-> currentEdges]
    ELSE [ok |-> TRUE,
          past |-> Append(h.past, Snapshot(currentNodes, currentEdges)),
          future |-> Front(h.future),
          nodes |-> Last(h.future).nodes,
          edges |-> Last(h.future).edges]

History == [past |-> past, future |-> future]

(***************************************************************************)
(* utils/geometry.  Distances are compared by their squares: Math.hypot is *)
(* monotone in the sum of squares, and d < t iff d*d < t*t for d, t >= 0.  *)
(* Widths and display heights of the model are even, so the halves are     *)
(* exact.                                                                  *)
(***************************************************************************)
getNodeDisplayHeight(node) ==
    IF node.collapsed THEN TitleHeight + Spacing3 ELSE node.height

getHandlePoints(node) ==
    LET displayHeight == getNodeDisplayHeight(node)
    IN  [top    |-> [x |-> node.x + node.width \div 2, y |-> node.y,
                     position |-> "top", nodeId |-> node.id],
         right  |-> [x |-> node.x + node.width, y |-> node.y + displayHeight \div 2,
                     position |-> "right", nodeId |-> node.id],
         bottom |-> [x |-> node.x + node.width \div 2, y |-> node.y + displayHeight,
                     position |-> "bottom", nodeId |-> node.id],
         left   |-> [x |-> node.x, y |-> node.y + displayHeight \div 2,
                     position |-> "left", nodeId |-> node.id]]

Dist2(h, targetX, targetY) ==
    (h.x - targetX) * (h.x - targetX) + (h.y - targetY) * (h.y - targetY)

PositionIndex(pos) == CHOOSE i \in 1..4 : HandlePositions[i] = pos

\* Place of a handle in the scan: nodes in insertion order (the order of their
\* ids), the four handles of a node in the order top, right, bottom, left.
ScanRank(h) == 4 * h.nodeId + PositionIndex(h.position)

\* The squared distance of two handles.
HandleDist2(from, to) == Dist2(from, to.x, to.y)

\* A getArrowPoints that keeps its initial choice: the right handle of the
\* source and the left handle of the target.
getArrowPointsRightLeft(fromNode, toNode) ==
    LET bestFrom == getHandlePoints(fromNode).right
        bestTo == getHandlePoints(toNode).left
    IN  <<bestFrom.x, bestFrom.y, bestTo.x, bestTo.y>>

\* [startX, startY, endX, endY]: the first pair of the scan (source handles
\* top, right, bottom, left, and for each the target handles in that order)
\* among those at the least distance.
getArrowPoints(fromNode, toNode) ==
    LET fromHandles == getHandlePoints(fromNode)
        toHandles == getHandlePoints(toNode)
        pairs == (1..4) \X (1..4)
        dist(pr) == HandleDist2(fromHandles[HandlePositions[pr[1]]],
                                toHandles[HandlePositions[pr[2]]])
        best == CHOOSE pr \in pairs : \A q \in pairs :
                    \/ dist(pr) < dist(q)
                    \/ dist(pr) = dist(q) /\ 4 * pr[1] + pr[2] <= 4 * q[1] + q[2]
        bestFrom == fromHandles[HandlePositions[best[1]]]
        bestTo == toHandles[HandlePositions[best[2]]]
    IN  <<bestFrom.x, bestFrom.y, bestTo.x, bestTo.y>>

\* <<>> for null, else <<[handle, distance2]>>: the first handle of the scan
\* among those at the least distance (the scan replaces its candidate only
\* on a strictly smaller distance).
\* A findClosestHandleInNodes that does not skip the excluded node.
findClosestHandleAnyNode(ns, targetX, targetY, excludeNodeId) ==
    LET hs == {getHandlePoints(ns[n])[HandlePositions[i]] :
                   n \in DOMAIN ns, i \in 1..4}
    IN  IF hs = {} THEN <<>>
        ELSE LET best == CHOOSE h \in hs : \A g \in hs :
                             \/ Dist2(h, targetX, targetY) < Dist2(g, targetX, targetY)
                             \/ /\ Dist2(h, targetX, targetY) = Dist2(g, targetX, targetY)
                                /\ ScanRank(h) <= ScanRank(g)
             IN  <<[handle |-> best, distance2 |-> Dist2(best, targetX, targetY)]>>

\* A findClosestHandleInNodes that stops after the first node it scans.
findClosestHandleFirstNode(ns, targetX, targetY, excludeNodeId) ==
    LET others == DOMAIN ns \ {excludeNodeId}
        first == {n \in others : \A o \in others : n <= o}
        hs == {getHandlePoints(ns[n])[HandlePositions[i]] : n \in first, i \in 1..4}
    IN  IF hs = {} THEN <<>>
        ELSE LET best == CHOOSE h \in hs : \A g \in hs :
                             \/ Dist2(h, targetX, targetY) < Dist2(g, targetX, targetY)
                             \/ /\ Dist2(h, targetX, targetY) = Dist2(g, targetX, targetY)
                                /\ ScanRank(h) <= ScanRank(g)
             IN  <<[handle |-> best, distance2 |-> Dist2(best, targetX, targetY)]>>

findClosestHandleInNodes(ns, targetX, targetY, excludeNodeId) ==
    LET hs == {getHandlePoints(ns[n])[HandlePositions[i]] :
                   n \in DOMAIN ns \ {excludeNodeId}, i \in 1..4}
    IN  IF hs = {} THEN <<>>
        ELSE LET best == CHOOSE h \in hs : \A g \in hs :
                             \/ Dist2(h, targetX, targetY) < Dist2(g, targetX, targetY)
                             \/ /\ Dist2(h, targetX, targetY) = Dist2(g, targetX, targetY)
                                /\ ScanRank(h) <= ScanRank(g)
             IN  <<[handle |-> best, distance2 |-> Dist2(best, targetX, targetY)]>>

(***************************************************************************)
(* useCanvas                                                               *)
(***************************************************************************)
screenToCanvas(screenX, screenY) ==
    Point((screenX - camera.x) \div camera.scale,
          (screenY - camera.y) \div camera.scale)

(***************************************************************************)
(* useProject.markDirty                                                    *)
(***************************************************************************)
markDirty == isDirty' = TRUE

(***************************************************************************)
(* Canvas: the handlers.                                                   *)
(***************************************************************************)
NoGesture == [kind |-> "none", id |-> NoId, x |-> 0, y |-> 0]

PointerFree == gesture = NoGesture

\* A saveStateForUndo that calls pushState twice.
saveStateForUndoTwice ==
    /\ budget > 0
    /\ budget' = budget - 1
    /\ LET h1 == pushState(History, isUndoingRef, nodes, edges)
           h2 == pushState(h1, isUndoingRef, nodes, edges)
       IN  past' = h2.past /\ future' = h2.future

\* saveStateForUndo: pushState(nodes, edges) of the rendered maps.
saveStateForUndo ==
    /\ budget > 0
    /\ budget' = budget - 1
    /\ LET h == pushState(History, isUndoingRef, nodes, edges)
       IN  past' = h.past /\ future' = h.future

Returned(op, ret) == lastOp' = op /\ lastRet' = ret /\ UNCHANGED session

\* An undo that does not call markDirty.
HandleUndoUnmarked ==
    LET r == undo(History, nodes, edges)
    IN  /\ nodes' = r.nodes
        /\ edges' = r.edges
        /\ past' = r.past
        /\ future' = r.future
        /\ UNCHANGED isDirty
        /\ isUndoingRef' = IF r.ok THEN FALSE ELSE isUndoingRef
        /\ Returned("undo", r.ok)
        /\ UNCHANGED <<nextNode, nextEdge, selectedNodeIds,
                       selectedEdgeId, editing, connectionDrag, draggingNodes,
                       dragStartPositions, copiedNodes, camera, projectName,
                   currentFilePath, pendingLoad,
                   pendingSave, disk, pasteOffset, gesture,
                       budget>>

HandleUndo ==
    LET r == undo(History, nodes, edges)
    IN  /\ nodes' = r.nodes
        /\ edges' = r.edges
        /\ past' = r.past
        /\ future' = r.future
        /\ isDirty' = (r.ok \/ isDirty)
        /\ isUndoingRef' = IF r.ok THEN FALSE ELSE isUndoingRef
        /\ Returned("undo", r.ok)
        /\ UNCHANGED <<nextNode, nextEdge, selectedNodeIds,
                       selectedEdgeId, editing, connectionDrag, draggingNodes,
                       dragStartPositions, copiedNodes, camera, projectName,
                   currentFilePath, pendingLoad,
                   pendingSave, disk, pasteOffset, gesture,
                       budget>>

HandleRedo ==
    LET r == redo(History, nodes, edges)
    IN  /\ nodes' = r.nodes
        /\ edges' = r.edges
        /\ past' = r.past
        /\ future' = r.future
        /\ isDirty' = (r.ok \/ isDirty)
        /\ isUndoingRef' = IF r.ok THEN FALSE ELSE isUndoingRef
        /\ Returned("redo", r.ok)
        /\ UNCHANGED <<nextNode, nextEdge, selectedNodeIds,
                       selectedEdgeId, editing, connectionDrag, draggingNodes,
                       dragStartPositions, copiedNodes, camera, projectName,
                   currentFilePath, pendingLoad,
                   pendingSave, disk, pasteOffset, gesture,
                       budget>>

\* handleKeyDown, Delete or Backspace.
KeyDelete ==
    /\ Returned("delete", FALSE)
    /\ IF editing # <<>>
       THEN UNCHANGED <<nodes, edges, past, future, selectedNodeIds,
                        selectedEdgeId, isDirty, budget>>
       ELSE IF selectedEdgeId # NoId
       THEN /\ saveStateForUndo
            /\ edges' = deleteEdge(edges, selectedEdgeId)
            /\ selectedEdgeId' = NoId
            /\ markDirty
            /\ UNCHANGED <<nodes, selectedNodeIds>>
       ELSE IF selectedNodeIds # {}
       THEN /\ saveStateForUndo
            /\ nodes' = deleteNodes(nodes, selectedNodeIds)
            /\ selectedNodeIds' = {}
            /\ markDirty
            /\ UNCHANGED <<edges, selectedEdgeId>>
       ELSE UNCHANGED <<nodes, edges, past, future, selectedNodeIds,
                        selectedEdgeId, isDirty, budget>>
    /\ UNCHANGED <<nextNode, nextEdge, isUndoingRef, editing, connectionDrag,
                   draggingNodes, dragStartPositions, copiedNodes, camera, projectName,
                   currentFilePath, pendingLoad, pendingSave, disk, pasteOffset,
                   gesture>>

\* An Escape that leaves the connection drag alone.
KeyEscapeKeepsDrag ==
    /\ selectedNodeIds' = {}
    /\ selectedEdgeId' = NoId
    /\ editing' = <<>>
    /\ Returned("escape", FALSE)
    /\ UNCHANGED <<nodes, edges, nextNode, nextEdge, past, future, isUndoingRef,
                   draggingNodes, dragStartPositions, copiedNodes, camera, projectName,
                   currentFilePath, pendingLoad, pendingSave, disk, pasteOffset,
                   isDirty, gesture, budget, connectionDrag>>

\* handleKeyDown, Escape.
KeyEscape ==
    /\ selectedNodeIds' = {}
    /\ selectedEdgeId' = NoId
    /\ editing' = <<>>
    /\ connectionDrag' = <<>>
    /\ Returned("escape", FALSE)
    /\ UNCHANGED <<nodes, edges, nextNode, nextEdge, past, future, isUndoingRef,
                   draggingNodes, dragStartPositions, copiedNodes, camera, projectName,
                   currentFilePath, pendingLoad, pendingSave, disk, pasteOffset,
                   isDirty, gesture, budget>>

\* The pointer is over a node: the event's target is not the stage.
PointOnNode(c) ==
    \E n \in DOMAIN nodes :
        /\ nodes[n].x <= c.x /\ c.x <= nodes[n].x + nodes[n].width
        /\ nodes[n].y <= c.y /\ c.y <= nodes[n].y + getNodeDisplayHeight(nodes[n])

\* A double click on the empty canvas, the pointer at screen position p.
CreateNodeAtPointer(p) ==
    /\ PointerFree
    /\ ~PointOnNode(screenToCanvas(p.x, p.y))
    /\ nextNode < MaxNodes
    /\ saveStateForUndo
    /\ LET canvasPos == screenToCanvas(p.x, p.y)
       IN  nodes' = createNode(nodes, nextNode + 1, canvasPos.x, canvasPos.y)
    /\ nextNode' = nextNode + 1
    /\ selectedNodeIds' = {nextNode + 1}
    /\ selectedEdgeId' = NoId
    /\ markDirty
    /\ Returned("create", FALSE)
    /\ UNCHANGED <<edges, nextEdge, isUndoingRef, editing, connectionDrag,
                   draggingNodes, dragStartPositions, copiedNodes, camera, projectName,
                   currentFilePath, pendingLoad, pendingSave, disk, pasteOffset,
                   gesture>>

\* A click on the empty canvas.
HandleStageClick ==
    /\ PointerFree
    /\ selectedNodeIds' = {}
    /\ selectedEdgeId' = NoId
    /\ Returned("stageClick", FALSE)
    /\ UNCHANGED <<nodes, edges, nextNode, nextEdge, past, future, isUndoingRef,
                   editing, connectionDrag, draggingNodes, dragStartPositions,
                   copiedNodes, camera, projectName,
                   currentFilePath, pendingLoad,
                   pendingSave, disk, pasteOffset, isDirty, gesture, budget>>

\* A click that adds the node to the selection, modifier or not.
HandleNodeClickAdds(nodeId, isCtrlClick) ==
    /\ PointerFree
    /\ nodeId \in DOMAIN nodes
    /\ selectedNodeIds' =
           IF isCtrlClick /\ nodeId \in selectedNodeIds
           THEN selectedNodeIds \ {nodeId}
           ELSE selectedNodeIds \cup {nodeId}
    /\ selectedEdgeId' = NoId
    /\ Returned("nodeClick", FALSE)
    /\ UNCHANGED <<nodes, edges, nextNode, nextEdge, past, future, isUndoingRef,
                   editing, connectionDrag, draggingNodes, dragStartPositions,
                   copiedNodes, camera, projectName,
                   currentFilePath, pendingLoad,
                   pendingSave, disk, pasteOffset, isDirty, gesture, budget>>

\* A click on a rendered node, with or without the modifier key.
HandleNodeClick(nodeId, isCtrlClick) ==
    /\ PointerFree
    /\ nodeId \in DOMAIN nodes
    /\ selectedNodeIds' =
           IF isCtrlClick
           THEN IF nodeId \in selectedNodeIds
                THEN selectedNodeIds \ {nodeId}
                ELSE selectedNodeIds \cup {nodeId}
           ELSE {nodeId}
    /\ selectedEdgeId' = NoId
    /\ Returned("nodeClick", FALSE)
    /\ UNCHANGED <<nodes, edges, nextNode, nextEdge, past, future, isUndoingRef,
                   editing, connectionDrag, draggingNodes, dragStartPositions,
                   copiedNodes, camera, projectName,
                   currentFilePath, pendingLoad,
                   pendingSave, disk, pasteOffset, isDirty, gesture, budget>>

\* An edge is rendered, and can be clicked, when both its nodes exist.
Rendered(edgeId) ==
    /\ edgeId \in DOMAIN edges
    /\ edges[edgeId].from \in DOMAIN nodes
    /\ edges[edgeId].to \in DOMAIN nodes

\* An edge click that leaves the node selection.
HandleEdgeClickKeepsNodes(edgeId) ==
    /\ PointerFree
    /\ Rendered(edgeId)
    /\ selectedEdgeId' = edgeId
    /\ Returned("edgeClick", FALSE)
    /\ UNCHANGED <<nodes, edges, nextNode, nextEdge, past, future, isUndoingRef,
                   editing, connectionDrag, draggingNodes, dragStartPositions,
                   copiedNodes, camera, projectName, selectedNodeIds,
                   currentFilePath, pendingLoad,
                   pendingSave, disk, pasteOffset, isDirty, gesture, budget>>

HandleEdgeClick(edgeId) ==
    /\ PointerFree
    /\ Rendered(edgeId)
    /\ selectedEdgeId' = edgeId
    /\ selectedNodeIds' = {}
    /\ Returned("edgeClick", FALSE)
    /\ UNCHANGED <<nodes, edges, nextNode, nextEdge, past, future, isUndoingRef,
                   editing, connectionDrag, draggingNodes, dragStartPositions,
                   copiedNodes, camera, projectName,
                   currentFilePath, pendingLoad,
                   pendingSave, disk, pasteOffset, isDirty, gesture, budget>>

(***************************************************************************)
(* Canvas: connection drawing.  Konva delivers drag start, drag moves and  *)
(* drag end of one handle in this order; keyboard events may fall between. *)
(***************************************************************************)
HandleConnectionStart(nodeId, position) ==
    /\ PointerFree
    /\ nodeId \in DOMAIN nodes
    /\ LET handle == getHandlePoints(nodes[nodeId])[position]
       IN  connectionDrag' =
               <<[fromNodeId |-> nodeId, fromPosition |-> position,
                  startX |-> handle.x, startY |-> handle.y,
                  currentX |-> handle.x, currentY |-> handle.y,
                  snappedNodeId |-> NoId, snappedPosition |-> "null",
                  snappedX |-> <<>>, snappedY |-> <<>>]>>
    /\ gesture' = [kind |-> "conn", id |-> nodeId, x |-> 0, y |-> 0]
    /\ Returned("connectionStart", FALSE)
    /\ UNCHANGED <<nodes, edges, nextNode, nextEdge, past, future, isUndoingRef,
                   selectedNodeIds, selectedEdgeId, editing, draggingNodes,
                   dragStartPositions, copiedNodes, camera, projectName,
                   currentFilePath, pendingLoad,
                   pendingSave, disk, pasteOffset, isDirty, budget>>

\* The pointer moves to screen position p.
HandleConnectionMove(p) ==
    /\ gesture.kind = "conn"
    /\ IF connectionDrag = <<>>
       THEN UNCHANGED connectionDrag
       ELSE LET prev == connectionDrag[1]
                canvasPos == screenToCanvas(p.x, p.y)
                closest == findClosestHandleInNodes(nodes, canvasPos.x, canvasPos.y,
                                                    prev.fromNodeId)
                isSnapped == /\ closest # <<>>
                             /\ closest[1].distance2 < SNAP_THRESHOLD * SNAP_THRESHOLD
            IN  connectionDrag' =
                    <<Merge(prev,
                        [currentX |-> canvasPos.x, currentY |-> canvasPos.y,
                         snappedNodeId |->
                             IF isSnapped THEN closest[1].handle.nodeId ELSE NoId,
                         snappedPosition |->
                             IF isSnapped THEN closest[1].handle.position ELSE "null",
                         snappedX |->
                             IF isSnapped THEN <<closest[1].handle.x>> ELSE <<>>,
                         snappedY |->
                             IF isSnapped THEN <<closest[1].handle.y>> ELSE <<>>])>>
    /\ Returned("connectionMove", FALSE)
    /\ UNCHANGED <<nodes, edges, nextNode, nextEdge, past, future, isUndoingRef,
                   selectedNodeIds, selectedEdgeId, editing, draggingNodes,
                   dragStartPositions, copiedNodes, camera, projectName,
                   currentFilePath, pendingLoad,
                   pendingSave, disk, pasteOffset, isDirty,
                   gesture, budget>>

\* The pointer is released.
HandleConnectionEnd ==
    /\ gesture.kind = "conn"
    /\ gesture' = NoGesture
    /\ IF connectionDrag = <<>>
       THEN /\ Returned("connectionEnd", FALSE)
            /\ UNCHANGED <<edges, nextEdge, past, future, isDirty, budget>>
       ELSE IF connectionDrag[1].snappedNodeId # NoId
       THEN LET r == createEdge(edges, nextEdge + 1, connectionDrag[1].fromNodeId,
                                connectionDrag[1].snappedNodeId)
            IN  /\ saveStateForUndo
                /\ edges' = r.edges
                /\ nextEdge' = IF r.ok THEN nextEdge + 1 ELSE nextEdge
                /\ markDirty
                /\ Returned("connectionEnd", r.ok)
       ELSE /\ Returned("connectionEnd", FALSE)
            /\ UNCHANGED <<edges, nextEdge, past, future, isDirty, budget>>
    /\ connectionDrag' = <<>>
    /\ UNCHANGED <<nodes, nextNode, isUndoingRef, selectedNodeIds, selectedEdgeId,
                   editing, draggingNodes, dragStartPositions, copiedNodes, camera, projectName,
                   currentFilePath, pendingLoad, pendingSave, disk,
                   pasteOffset>>

(***************************************************************************)
(* Canvas: node drag.  Konva delivers the drag moves of one node, then its *)
(* drag end at the last position it reported.                              *)
(***************************************************************************)
MultiDrag(nodeId) == nodeId \in selectedNodeIds /\ Cardinality(selectedNodeIds) > 1

\* dragStartPositions after the capture of the first drag move.
CaptureStart(nodeId) ==
    IF nodeId \in DOMAIN dragStartPositions THEN dragStartPositions
    ELSE LET captured ==
                 {nodeId} \cup
                 (IF MultiDrag(nodeId)
                  THEN {id \in selectedNodeIds : id \in DOMAIN nodes}
                  ELSE {})
         IN  [id \in DOMAIN dragStartPositions \cup captured |->
                 IF id \in DOMAIN dragStartPositions THEN dragStartPositions[id]
                 ELSE Point(nodes[id].x, nodes[id].y)]

HandleNodeDragMove(nodeId, p) ==
    /\ \/ PointerFree
       \/ gesture.kind = "node" /\ gesture.id = nodeId
    /\ nodeId \in DOMAIN nodes
    /\ gesture' = [kind |-> "node", id |-> nodeId, x |-> p.x, y |-> p.y]
    /\ LET starts == CaptureStart(nodeId)
           startPos == starts[nodeId]
           offsetX == p.x - startPos.x
           offsetY == p.y - startPos.y
           moved == IF MultiDrag(nodeId)
                    THEN {id \in selectedNodeIds \ {nodeId} : id \in DOMAIN starts}
                    ELSE {}
       IN  /\ dragStartPositions' = starts
           /\ draggingNodes' =
                  [id \in DOMAIN draggingNodes \cup {nodeId} \cup moved |->
                      IF id = nodeId THEN Point(p.x, p.y)
                      ELSE IF id \in moved
                      THEN Point(starts[id].x + offsetX, starts[id].y + offsetY)
                      ELSE draggingNodes[id]]
    /\ Returned("dragMove", FALSE)
    /\ UNCHANGED <<nodes, edges, nextNode, nextEdge, past, future, isUndoingRef,
                   selectedNodeIds, selectedEdgeId, editing, connectionDrag,
                   copiedNodes, camera, projectName,
                   currentFilePath, pendingLoad,
                   pendingSave, disk, pasteOffset, isDirty, budget>>

\* The nodes handleNodeDragEnd moves besides the dragged one: the selected
\* nodes that still have a start position when it looks them up, which is
\* after it has deleted the start positions of the selected nodes.
OthersMoved(nodeId, starts) ==
    IF MultiDrag(nodeId)
    THEN {id \in selectedNodeIds \ {nodeId} : id \in DOMAIN starts}
    ELSE {}

RECURSIVE moveNodes(_, _, _, _, _)
moveNodes(ns, ids, starts, offsetX, offsetY) ==
    IF ids = {} THEN ns
    ELSE LET id == CHOOSE i \in ids : TRUE
         IN  moveNodes(moveNode(ns, id, starts[id].x + offsetX, starts[id].y + offsetY),
                       ids \ {id}, starts, offsetX, offsetY)

HandleNodeDragEnd ==
    /\ gesture.kind = "node"
    /\ gesture' = NoGesture
    /\ Returned("dragEnd", FALSE)
    /\ LET nodeId == gesture.id
       IN  IF nodeId \notin DOMAIN nodes \/ nodeId \notin DOMAIN dragStartPositions
           THEN UNCHANGED <<nodes, past, future, draggingNodes, dragStartPositions,
                            isDirty, budget>>
           ELSE LET startPos == dragStartPositions[nodeId]
                    offsetX == gesture.x - startPos.x
                    offsetY == gesture.y - startPos.y
                    starts == [id \in DOMAIN dragStartPositions \ selectedNodeIds |->
                                  dragStartPositions[id]]
                IN  /\ draggingNodes' =
                           [id \in DOMAIN draggingNodes \ selectedNodeIds |->
                               draggingNodes[id]]
                    /\ dragStartPositions' = starts
                    /\ saveStateForUndo
                    /\ nodes' = moveNodes(moveNode(nodes, nodeId, gesture.x, gesture.y),
                                          OthersMoved(nodeId, starts), starts,
                                          offsetX, offsetY)
                    /\ markDirty
    /\ UNCHANGED <<edges, nextNode, nextEdge, isUndoingRef, selectedNodeIds,
                   selectedEdgeId, editing, connectionDrag, copiedNodes, camera, projectName,
                   currentFilePath, pendingLoad, pendingSave, disk,
                   pasteOffset>>

(***************************************************************************)
(* Canvas: resize, collapse, title colour.                                 *)
(***************************************************************************)
\* Sizes the resize handle of Node reports.
ResizeSizes == {[width |-> 300, height |-> 200]}

\* The resize handle is shown on a selected node that is not collapsed.
HandleNodeResize(nodeId, w, h) ==
    /\ PointerFree
    /\ nodeId \in DOMAIN nodes
    /\ nodeId \in selectedNodeIds
    /\ ~nodes[nodeId].collapsed
    /\ saveStateForUndo
    /\ nodes' = resizeNode(nodes, nodeId, w, h)
    /\ markDirty
    /\ Returned("resize", FALSE)
    /\ UNCHANGED <<edges, nextNode, nextEdge, isUndoingRef, selectedNodeIds,
                   selectedEdgeId, editing, connectionDrag, draggingNodes,
                   dragStartPositions, copiedNodes, camera, projectName,
                   currentFilePath, pendingLoad,
                   pendingSave, disk, pasteOffset, gesture>>

HandleToggleCollapse(nodeId) ==
    /\ PointerFree
    /\ nodeId \in DOMAIN nodes
    /\ saveStateForUndo
    /\ nodes' = toggleCollapse(nodes, nodeId)
    /\ markDirty
    /\ Returned("toggleCollapse", FALSE)
    /\ UNCHANGED <<edges, nextNode, nextEdge, isUndoingRef, selectedNodeIds,
                   selectedEdgeId, editing, connectionDrag, draggingNodes,
                   dragStartPositions, copiedNodes, camera, projectName,
                   currentFilePath, pendingLoad,
                   pendingSave, disk, pasteOffset, gesture>>

TITLE_COLORS == <<"text", "blue", "green", "yellow", "pink">>

NextTitleColor(titleColor) ==
    LET currentColor == IF titleColor = "unset" THEN TITLE_COLORS[1] ELSE titleColor
        at == {i \in 1..Len(TITLE_COLORS) : TITLE_COLORS[i] = currentColor}
    IN  IF at = {} THEN TITLE_COLORS[1]
        ELSE TITLE_COLORS[((CHOOSE i \in at : TRUE) % Len(TITLE_COLORS)) + 1]

HandleToggleTitleColor(nodeId) ==
    /\ PointerFree
    /\ nodeId \in DOMAIN nodes
    /\ saveStateForUndo
    /\ nodes' = updateNode(nodes, nodeId,
                           [titleColor |-> NextTitleColor(nodes[nodeId].titleColor)])
    /\ markDirty
    /\ Returned("toggleTitleColor", FALSE)
    /\ UNCHANGED <<edges, nextNode, nextEdge, isUndoingRef, selectedNodeIds,
                   selectedEdgeId, editing, connectionDrag, draggingNodes,
                   dragStartPositions, copiedNodes, camera, projectName,
                   currentFilePath, pendingLoad,
                   pendingSave, disk, pasteOffset, gesture>>

(***************************************************************************)
(* Canvas: inline text edit.                                               *)
(***************************************************************************)
\* Texts the editor commits.
TextValues == {"a"}

\* A double click on the title or, when it is shown, the description.
StartEditing(nodeId, field) ==
    /\ PointerFree
    /\ nodeId \in DOMAIN nodes
    /\ field = "description" => ~nodes[nodeId].collapsed
    /\ editing' = <<[nodeId |-> nodeId, edgeId |-> NoId, field |-> field]>>
    /\ Returned("startEditing", FALSE)
    /\ UNCHANGED <<nodes, edges, nextNode, nextEdge, past, future, isUndoingRef,
                   selectedNodeIds, selectedEdgeId, connectionDrag, draggingNodes,
                   dragStartPositions, copiedNodes, camera, projectName,
                   currentFilePath, pendingLoad,
                   pendingSave, disk, pasteOffset, isDirty,
                   gesture, budget>>

StartEditingEdgeLabel(edgeId) ==
    /\ PointerFree
    /\ Rendered(edgeId)
    /\ editing' = <<[nodeId |-> NoId, edgeId |-> edgeId, field |-> "label"]>>
    /\ Returned("startEditingEdgeLabel", FALSE)
    /\ UNCHANGED <<nodes, edges, nextNode, nextEdge, past, future, isUndoingRef,
                   selectedNodeIds, selectedEdgeId, connectionDrag, draggingNodes,
                   dragStartPositions, copiedNodes, camera, projectName,
                   currentFilePath, pendingLoad,
                   pendingSave, disk, pasteOffset, isDirty,
                   gesture, budget>>

\* getEditorPosition is not null: the text editor is on screen.
EditorShown ==
    /\ editing # <<>>
    /\ IF editing[1].edgeId # NoId THEN Rendered(editing[1].edgeId)
       ELSE editing[1].nodeId \in DOMAIN nodes

\* The editor commits value (Enter, Shift+Enter or loss of focus).
HandleSaveEdit(value) ==
    /\ EditorShown
    /\ saveStateForUndo
    /\ LET e == editing[1]
       IN  IF e.nodeId # NoId /\ e.field \in {"title", "description"}
           THEN /\ nodes' = updateNode(nodes, e.nodeId,
                                       [f \in {e.field} |-> value])
                /\ UNCHANGED edges
           ELSE IF e.edgeId # NoId /\ e.field = "label"
           THEN /\ edges' = updateEdge(edges, e.edgeId, [label |-> value])
                /\ UNCHANGED nodes
           ELSE UNCHANGED <<nodes, edges>>
    /\ editing' = <<>>
    /\ markDirty
    /\ Returned("saveEdit", FALSE)
    /\ UNCHANGED <<nextNode, nextEdge, isUndoingRef, selectedNodeIds,
                   selectedEdgeId, connectionDrag, draggingNodes,
                   dragStartPositions, copiedNodes, camera, projectName,
                   currentFilePath, pendingLoad,
                   pendingSave, disk, pasteOffset, gesture>>

HandleCancelEdit ==
    /\ EditorShown
    /\ editing' = <<>>
    /\ Returned("cancelEdit", FALSE)
    /\ UNCHANGED <<nodes, edges, nextNode, nextEdge, past, future, isUndoingRef,
                   selectedNodeIds, selectedEdgeId, connectionDrag, draggingNodes,
                   dragStartPositions, copiedNodes, camera, projectName,
                   currentFilePath, pendingLoad,
                   pendingSave, disk, pasteOffset, isDirty,
                   gesture, budget>>

(***************************************************************************)
(* Canvas: copy and paste.  The copied nodes are kept in the order of      *)
(* their ids.  The centroid is a quotient of floating-point numbers in the *)
(* source; the model copies only selections whose centroid is an integer   *)
(* point, where the quotient is exact.                                     *)
(***************************************************************************)
RECURSIVE SeqOfSet(_)
SeqOfSet(ids) ==
    IF ids = {} THEN <<>>
    ELSE LET least == CHOOSE i \in ids : \A j \in ids : i <= j
         IN  <<least>> \o SeqOfSet(ids \ {least})

RECURSIVE SumOf(_, _)
SumOf(s, field) ==
    IF s = <<>> THEN 0 ELSE s[1][field] + SumOf(Tail(s), field)

NodesToCopy ==
    LET ids == SeqOfSet({id \in selectedNodeIds : id \in DOMAIN nodes})
    IN  [i \in 1..Len(ids) |-> nodes[ids[i]]]

CentroidExact(s) ==
    /\ SumOf(s, "x") % Len(s) = 0
    /\ SumOf(s, "y") % Len(s) = 0

HandleCopy ==
    /\ Returned("copy", FALSE)
    /\ IF selectedNodeIds = {} \/ NodesToCopy = <<>>
       THEN UNCHANGED <<copiedNodes, pasteOffset>>
       ELSE /\ CentroidExact(NodesToCopy)
            /\ copiedNodes' = NodesToCopy
            /\ pasteOffset' = Point(SumOf(NodesToCopy, "x") \div Len(NodesToCopy),
                                    SumOf(NodesToCopy, "y") \div Len(NodesToCopy))
    /\ UNCHANGED <<nodes, edges, nextNode, nextEdge, past, future, isUndoingRef,
                   selectedNodeIds, selectedEdgeId, editing, connectionDrag,
                   draggingNodes, dragStartPositions, isDirty, camera, projectName,
                   currentFilePath, pendingLoad, pendingSave, disk, gesture,
                   budget>>

\* A paste that reads the properties of the original as it is in the store at
\* paste time, where it still exists, instead of the copied value.
RECURSIVE PasteNodesLive(_, _, _, _, _)
PasteNodesLive(ns, copied, first, offsetX, offsetY) ==
    IF copied = <<>> THEN ns
    ELSE LET copiedNode == copied[1]
             newId == first + 1
             created == createNode(ns, newId, copiedNode.x + offsetX,
                                   copiedNode.y + offsetY)
             updated == IF copiedNode.id \notin DOMAIN ns THEN created
                        ELSE updateNode(created, newId,
                                 [title |-> ns[copiedNode.id].title,
                                  description |-> ns[copiedNode.id].description,
                                  width |-> ns[copiedNode.id].width,
                                  height |-> ns[copiedNode.id].height,
                                  collapsed |-> ns[copiedNode.id].collapsed,
                                  titleColor |-> ns[copiedNode.id].titleColor])
         IN  PasteNodesLive(updated, Tail(copied), newId, offsetX, offsetY)

\* createNode followed by updateNode, for each copied node in turn; the i-th
\* new node gets the id first + i.
RECURSIVE PasteNodes(_, _, _, _, _)
PasteNodes(ns, copied, first, offsetX, offsetY) ==
    IF copied = <<>> THEN ns
    ELSE LET copiedNode == copied[1]
             newId == first + 1
             created == createNode(ns, newId, copiedNode.x + offsetX,
                                   copiedNode.y + offsetY)
             updated == updateNode(created, newId,
                            [title |-> copiedNode.title,
                             description |-> copiedNode.description,
                             width |-> copiedNode.width,
                             height |-> copiedNode.height,
                             collapsed |-> copiedNode.collapsed,
                             titleColor |-> copiedNode.titleColor])
         IN  PasteNodes(updated, Tail(copied), newId, offsetX, offsetY)

\* Screen positions of the pointer at a paste; <<>> when it is off the stage.
PastePointers == {<<>>, <<Point(0, 0)>>}

HandlePaste(pointer) ==
    /\ Returned("paste", FALSE)
    /\ IF copiedNodes = <<>> \/ editing # <<>>
       THEN UNCHANGED <<nodes, nextNode, past, future, selectedNodeIds,
                        selectedEdgeId, pasteOffset, isDirty, budget>>
       ELSE LET canvasPos == IF pointer # <<>>
                             THEN screenToCanvas(pointer[1].x, pointer[1].y)
                             ELSE screenToCanvas(ViewWidth \div 2, ViewHeight \div 2)
                offsetX == canvasPos.x - pasteOffset.x
                offsetY == canvasPos.y - pasteOffset.y
            IN  /\ nextNode + Len(copiedNodes) <= MaxNodes
                /\ saveStateForUndo
                /\ nodes' = PasteNodes(nodes, copiedNodes, nextNode, offsetX, offsetY)
                /\ nextNode' = nextNode + Len(copiedNodes)
                /\ selectedNodeIds' = (nextNode + 1)..(nextNode + Len(copiedNodes))
                /\ selectedEdgeId' = NoId
                /\ pasteOffset' = Point(pasteOffset.x + PasteStagger,
                                        pasteOffset.y + PasteStagger)
                /\ markDirty
    /\ UNCHANGED <<edges, nextEdge, isUndoingRef, editing, connectionDrag,
                   draggingNodes, dragStartPositions, copiedNodes, camera, projectName,
                   currentFilePath, pendingLoad, pendingSave, disk, gesture>>

(***************************************************************************)
(* useProject.loadProjectByPath, called by the effect of Canvas on its     *)
(* initialProjectPath.  The read is asynchronous: LoadProjectDone is the   *)
(* continuation after the await, with the result of the read.              *)
(***************************************************************************)
\* The project file the welcome screen opens: two nodes, saved by an earlier
\* session (which handed out the ids 1 and 2).
SampleProject ==
    [meta |-> [name |-> "Sample", canvas |-> [zoom |-> 1, x |-> 0, y |-> 0]],
     nodes |-> createNode(createNode(EmptyMap, 1, 0, 0), 2, 260, 0),
     edges |-> EmptyMap]

setCameraPosition(cam, newCamera) == Merge(cam, newCamera)

LoadProjectDone(result) ==
    /\ pendingLoad # <<>>
    /\ pendingLoad' = <<>>
    /\ IF result.success /\ result.data # <<>>
       THEN LET project == result.data[1]
            IN  /\ nodes' = project.nodes
                /\ edges' = project.edges
                /\ camera' = setCameraPosition(camera,
                                 [x |-> project.meta.canvas.x,
                                  y |-> project.meta.canvas.y,
                                  scale |-> project.meta.canvas.zoom])
                /\ projectName' = project.meta.name
                /\ currentFilePath' = pendingLoad[1]
                /\ isDirty' = FALSE
                /\ Returned("load", TRUE)
       ELSE /\ Returned("load", FALSE)
            /\ UNCHANGED <<nodes, edges, camera, projectName, currentFilePath,
                           isDirty>>
    /\ UNCHANGED <<nextNode, nextEdge, past, future, isUndoingRef,
                   selectedNodeIds, selectedEdgeId, editing, connectionDrag,
                   draggingNodes, dragStartPositions, copiedNodes, pasteOffset,
                   pendingSave, disk, gesture, budget>>

(***************************************************************************)
(* The project file.  JSON.stringify leaves out the properties whose value *)
(* is undefined; a property that is missing from the parsed object reads   *)
(* as undefined ("unset" here).  Numbers and strings are written and read  *)
(* back as they are.  The text of a file is <<json>> when it is JSON and    *)
(* <<>> when JSON.parse throws on it.                                       *)
(***************************************************************************)
\* The object without those of its optional properties that are undefined.
Defined(obj, optional) ==
    [k \in {j \in DOMAIN obj : ~(j \in optional /\ obj[j] = "unset")} |-> obj[k]]

\* The object with the optional properties it lacks reading as undefined.
WithOptional(obj, optional) ==
    [k \in DOMAIN obj \cup optional |-> IF k \in DOMAIN obj THEN obj[k] ELSE "unset"]

\* A stringify that writes the required properties only.
stringifyRequiredOnly(data) ==
    [meta |-> data.meta,
     nodes |-> [id \in DOMAIN data.nodes |->
                   [k \in DOMAIN data.nodes[id] \ {"titleColor"} |-> data.nodes[id][k]]],
     edges |-> [id \in DOMAIN data.edges |->
                   [k \in DOMAIN data.edges[id] \ {"label"} |-> data.edges[id][k]]]]

\* JSON.stringify(data, null, 2) of the save-project handler.
stringify(data) ==
    [meta |-> data.meta,
     nodes |-> [id \in DOMAIN data.nodes |-> Defined(data.nodes[id], {"titleColor"})],
     edges |-> [id \in DOMAIN data.edges |-> Defined(data.edges[id], {"label"})]]

\* JSON.parse(content) of the load-project handler, read as a Project.
parse(text) ==
    [meta |-> text.meta,
     nodes |-> [id \in DOMAIN text.nodes |->
                   WithOptional(text.nodes[id], {"titleColor"})],
     edges |-> [id \in DOMAIN text.edges |-> WithOptional(text.edges[id], {"label"})]]

NoFiles == [path \in {} |-> 0]

\* The latest modification time on the disk.
RECURSIVE Latest(_)
Latest(files) ==
    IF DOMAIN files = {} THEN 0
    ELSE LET path == CHOOSE f \in DOMAIN files : TRUE
             rest == Latest([f \in DOMAIN files \ {path} |-> files[f]])
         IN  IF files[path].modified > rest THEN files[path].modified ELSE rest

\* The file as fs.writeFile leaves it.
writeFile(files, filePath, json) ==
    With(files, filePath, [modified |-> Latest(files) + 1, text |-> <<json>>])

(***************************************************************************)
(* useProject: buildProjectData, save (Ctrl+S) and open (Ctrl+O).  Each is *)
(* asynchronous: KeySave and KeyOpen run up to the await of the write or   *)
(* the read, dialog included; SaveProjectDone and LoadProjectDone are the  *)
(* continuations.                                                          *)
(***************************************************************************)
\* The time of the save is not modelled.
buildProjectData ==
    [meta |-> [name |-> projectName, created |-> "now",
               canvas |-> [zoom |-> camera.scale, x |-> camera.x, y |-> camera.y]],
     nodes |-> nodes,
     edges |-> edges]

\* A confirmation that answers yes without asking.
checkUnsavedChangesNever(confirmed) == TRUE

\* window.confirm answers confirmed when the project is dirty.
checkUnsavedChanges(confirmed) == IF ~isDirty THEN TRUE ELSE confirmed

\* What the save and open dialogs return: <<>> when cancelled.
DialogResults == {<<>>, <<"a.json">>, <<"b.json">>}

\* A save that falls back to a default file when the dialog is cancelled.
KeySaveDefaultPath(dialogResult) ==
    /\ pendingSave = <<>>
    /\ budget > 0
    /\ budget' = budget - 1
    /\ pendingSave' = <<[filePath |-> IF currentFilePath # "" THEN currentFilePath
                                      ELSE IF dialogResult # <<>> THEN dialogResult[1]
                                      ELSE "untitled.json",
                         data |-> buildProjectData]>>
    /\ Returned("save", FALSE)
    /\ UNCHANGED <<nodes, edges, nextNode, nextEdge, past, future, isUndoingRef,
                   selectedNodeIds, selectedEdgeId, editing, connectionDrag,
                   draggingNodes, dragStartPositions, copiedNodes, pasteOffset,
                   isDirty, camera, projectName, currentFilePath, pendingLoad,
                   disk, gesture>>

KeySave(dialogResult) ==
    /\ pendingSave = <<>>
    /\ LET filePath == IF currentFilePath # "" THEN <<currentFilePath>>
                       ELSE dialogResult
       IN  IF filePath = <<>>
           THEN UNCHANGED <<pendingSave, budget>>
           ELSE /\ budget > 0
                /\ budget' = budget - 1
                /\ pendingSave' = <<[filePath |-> filePath[1],
                                     data |-> buildProjectData]>>
    /\ Returned("save", FALSE)
    /\ UNCHANGED <<nodes, edges, nextNode, nextEdge, past, future, isUndoingRef,
                   selectedNodeIds, selectedEdgeId, editing, connectionDrag,
                   draggingNodes, dragStartPositions, copiedNodes, pasteOffset,
                   isDirty, camera, projectName, currentFilePath, pendingLoad,
                   disk, gesture>>

\* useProject.saveAs: always asks for the file.
SaveAs(dialogResult) ==
    /\ pendingSave = <<>>
    /\ IF dialogResult = <<>>
       THEN UNCHANGED <<pendingSave, budget>>
       ELSE /\ budget > 0
            /\ budget' = budget - 1
            /\ pendingSave' = <<[filePath |-> dialogResult[1],
                                 data |-> buildProjectData]>>
    /\ Returned("saveAs", FALSE)
    /\ UNCHANGED <<nodes, edges, nextNode, nextEdge, past, future, isUndoingRef,
                   selectedNodeIds, selectedEdgeId, editing, connectionDrag,
                   draggingNodes, dragStartPositions, copiedNodes, pasteOffset,
                   isDirty, camera, projectName, currentFilePath, pendingLoad,
                   disk, gesture>>

\* What the save-image dialog returns.
ImageDialogResults == {<<>>, <<"canvas.png">>}

\* handleExportImage (Ctrl+E): the picture of the stage, written to the file
\* the dialog returns; success is the result of the write.  A picture is not
\* JSON.
KeyExportImage(dialogResult, success) ==
    /\ IF dialogResult # <<>> /\ success
       THEN /\ budget > 0
            /\ budget' = budget - 1
            /\ disk' = With(disk, dialogResult[1],
                            [modified |-> Latest(disk) + 1, text |-> <<>>])
       ELSE UNCHANGED <<disk, budget>>
    /\ Returned("exportImage", dialogResult # <<>> /\ success)
    /\ UNCHANGED <<nodes, edges, nextNode, nextEdge, past, future, isUndoingRef,
                   selectedNodeIds, selectedEdgeId, editing, connectionDrag,
                   draggingNodes, dragStartPositions, copiedNodes, pasteOffset,
                   isDirty, camera, projectName, currentFilePath, pendingLoad,
                   pendingSave, gesture>>

\* A continuation of the write that clears the dirty flag whatever the result.
SaveProjectDoneOptimistic(success) ==
    /\ pendingSave # <<>>
    /\ pendingSave' = <<>>
    /\ IF success
       THEN /\ disk' = writeFile(disk, pendingSave[1].filePath,
                                 stringify(pendingSave[1].data))
            /\ currentFilePath' = pendingSave[1].filePath
       ELSE UNCHANGED <<disk, currentFilePath>>
    /\ isDirty' = FALSE
    /\ Returned("saveDone", success)
    /\ UNCHANGED <<nodes, edges, nextNode, nextEdge, past, future, isUndoingRef,
                   selectedNodeIds, selectedEdgeId, editing, connectionDrag,
                   draggingNodes, dragStartPositions, copiedNodes, pasteOffset,
                   camera, projectName, pendingLoad, gesture, budget>>

\* The write returned: result.success is success.
SaveProjectDone(success) ==
    /\ pendingSave # <<>>
    /\ pendingSave' = <<>>
    /\ IF success
       THEN /\ disk' = writeFile(disk, pendingSave[1].filePath,
                                 stringify(pendingSave[1].data))
            /\ currentFilePath' = pendingSave[1].filePath
            /\ isDirty' = FALSE
       ELSE UNCHANGED <<disk, currentFilePath, isDirty>>
    /\ Returned("saveDone", success)
    /\ UNCHANGED <<nodes, edges, nextNode, nextEdge, past, future, isUndoingRef,
                   selectedNodeIds, selectedEdgeId, editing, connectionDrag,
                   draggingNodes, dragStartPositions, copiedNodes, pasteOffset,
                   camera, projectName, pendingLoad, gesture, budget>>

\* What the read of a path can return: the parsed file, a file that holds
\* null, or a failure.
ReadResults(filePath) ==
    {[success |-> FALSE, data |-> <<>>], [success |-> TRUE, data |-> <<>>]}
    \cup (IF filePath \in DOMAIN disk /\ disk[filePath].text # <<>>
          THEN {[success |-> TRUE, data |-> <<parse(disk[filePath].text[1])>>]}
          ELSE {})

KeyOpen(confirmed, dialogResult) ==
    /\ pendingLoad = <<>>
    /\ IF checkUnsavedChanges(confirmed) /\ dialogResult # <<>>
       THEN pendingLoad' = dialogResult
       ELSE UNCHANGED pendingLoad
    /\ Returned("open", FALSE)
    /\ UNCHANGED <<nodes, edges, nextNode, nextEdge, past, future, isUndoingRef,
                   selectedNodeIds, selectedEdgeId, editing, connectionDrag,
                   draggingNodes, dragStartPositions, copiedNodes, pasteOffset,
                   isDirty, camera, projectName, currentFilePath, pendingSave,
                   disk, gesture, budget>>

(***************************************************************************)
(* useProject.newProject followed by useHistory.clearHistory: Ctrl+N.      *)
(* confirmed is the answer to the unsaved-changes question, asked when the *)
(* project is dirty.                                                       *)
(***************************************************************************)
KeyNewProject(confirmed) ==
    /\ PointerFree
    /\ IF checkUnsavedChanges(confirmed)
       THEN /\ nodes' = EmptyMap
            /\ edges' = EmptyMap
            /\ camera' = setCameraPosition(camera, [x |-> 0, y |-> 0, scale |-> 1])
            /\ projectName' = "Untitled"
            /\ currentFilePath' = ""
            /\ isDirty' = FALSE
       ELSE UNCHANGED <<nodes, edges, camera, projectName, currentFilePath, isDirty>>
    /\ past' = <<>>
    /\ future' = <<>>
    /\ Returned("newProject", checkUnsavedChanges(confirmed))
    /\ UNCHANGED <<nextNode, nextEdge, isUndoingRef, selectedNodeIds,
                   selectedEdgeId, editing, connectionDrag, draggingNodes,
                   dragStartPositions, copiedNodes, pasteOffset, pendingLoad,
                   pendingSave, disk,
                   gesture, budget>>

(***************************************************************************)
(* The numbers of the camera.  A JavaScript number is a binary floating-   *)
(* point value: here m * 2^e with a mantissa of Precision bits (53 in the  *)
(* program), every operation rounded to the nearest value, ties to the     *)
(* even mantissa.  The exponent is unbounded: no overflow or underflow     *)
(* occurs in the range of the camera.                                      *)
(***************************************************************************)
Float(m, e) == [m |-> m, e |-> e]

Zero == Float(0, 0)

Abs(n) == IF n < 0 THEN -n ELSE n

Sign(n) == IF n < 0 THEN -1 ELSE 1

RECURSIVE BitLen(_)
BitLen(n) == IF n = 0 THEN 0 ELSE 1 + BitLen(n \div 2)

\* The float nearest to m * 2^e.
RoundToFloat(m, e) ==
    LET a == Abs(m)
        len == BitLen(a)
    IN  IF m = 0 THEN Zero
        ELSE IF len <= Precision
        THEN Float(m * 2^(Precision - len), e - (Precision - len))
        ELSE LET k == len - Precision
                 q == a \div 2^k
                 r == a % 2^k
                 half == 2^(k - 1)
                 up == r > half \/ (r = half /\ q % 2 = 1)
                 rounded == IF up THEN q + 1 ELSE q
             IN  IF rounded = 2^Precision
                 THEN Float(Sign(m) * 2^(Precision - 1), e + k + 1)
                 ELSE Float(Sign(m) * rounded, e + k)

FromInt(n) == RoundToFloat(n, 0)

FNeg(a) == Float(-a.m, a.e)

FAbs(a) == Float(Abs(a.m), a.e)

\* a + b.  An operand more than Precision + 2 binary places below the other
\* is less than a quarter of its last place and leaves it as it is.
FAdd(a, b) ==
    IF a.m = 0 THEN b
    ELSE IF b.m = 0 THEN a
    ELSE IF a.e - b.e > Precision + 2 THEN a
    ELSE IF b.e - a.e > Precision + 2 THEN b
    ELSE LET e == IF a.e < b.e THEN a.e ELSE b.e
         IN  RoundToFloat(a.m * 2^(a.e - e) + b.m * 2^(b.e - e), e)

FSub(a, b) == FAdd(a, FNeg(b))

FMul(a, b) == RoundToFloat(a.m * b.m, a.e + b.e)

\* a / b for b # 0: the quotient to Precision + 2 places and a sticky bit for
\* the remainder, rounded.
FDiv(a, b) ==
    IF a.m = 0 THEN Zero
    ELSE LET k == Precision + 2
             num == Abs(a.m) * 2^k
             q == num \div Abs(b.m)
             sticky == IF num % Abs(b.m) = 0 THEN 0 ELSE 1
         IN  RoundToFloat(Sign(a.m) * Sign(b.m) * (2 * q + sticky),
                          a.e - b.e - k - 1)

\* a < b: the difference rounds to a negative number exactly when it is one.
FLess(a, b) == FSub(a, b).m < 0

FLeq(a, b) == ~FLess(b, a)

FMin(a, b) == IF FLess(b, a) THEN b ELSE a

FMax(a, b) == IF FLess(a, b) THEN b ELSE a

(***************************************************************************)
(* useCanvas over these numbers: the options, the two conversions, the     *)
(* wheel zoom and the pan.                                                 *)
(***************************************************************************)
minScale == FDiv(FromInt(1), FromInt(10))

maxScale == FromInt(3)

scaleStep == FDiv(FromInt(11), FromInt(10))

InitialCamera == [x |-> Zero, y |-> Zero, scale |-> FromInt(1)]

screenToCanvasF(cam, screenX, screenY) ==
    Point(FDiv(FSub(screenX, cam.x), cam.scale),
          FDiv(FSub(screenY, cam.y), cam.scale))

\* A conversion to the screen that leaves the pan offset out.
canvasToScreenNoPan(cam, canvasX, canvasY) ==
    Point(FMul(canvasX, cam.scale), FMul(canvasY, cam.scale))

canvasToScreenF(cam, canvasX, canvasY) ==
    Point(FAdd(FMul(canvasX, cam.scale), cam.x),
          FAdd(FMul(canvasY, cam.scale), cam.y))

\* A wheel zoom that keeps the pan offset.
handleWheelKeepsOffset(cam, pointer, direction) ==
    [x |-> cam.x, y |-> cam.y,
     scale |-> IF direction > 0
               THEN FMin(FMul(cam.scale, scaleStep), maxScale)
               ELSE FMax(FDiv(cam.scale, scaleStep), minScale)]

\* The camera handleWheel sets, for the pointer at a screen position and the
\* direction 1 (deltaY < 0, zoom in) or -1 (zoom out).
handleWheel(cam, pointer, direction) ==
    LET newScale == IF direction > 0
                    THEN FMin(FMul(cam.scale, scaleStep), maxScale)
                    ELSE FMax(FDiv(cam.scale, scaleStep), minScale)
        mousePointTo == Point(FDiv(FSub(pointer.x, cam.x), cam.scale),
                              FDiv(FSub(pointer.y, cam.y), cam.scale))
        newPos == Point(FSub(pointer.x, FMul(mousePointTo.x, newScale)),
                        FSub(pointer.y, FMul(mousePointTo.y, newScale)))
    IN  [x |-> newPos.x, y |-> newPos.y, scale |-> newScale]

\* Screen positions of the pointer over the stage.
WheelPointers == {Point(0, 0), Point(100, 50)}

HandleWheel(pointer, direction) ==
    /\ budget > 0
    /\ budget' = budget - 1
    /\ camera' = handleWheel(camera, Point(FromInt(pointer.x), FromInt(pointer.y)),
                             direction)
    /\ Returned("wheel", FALSE)
    /\ UNCHANGED <<nodes, edges, nextNode, nextEdge, past, future, isUndoingRef,
                   selectedNodeIds, selectedEdgeId, editing, connectionDrag,
                   draggingNodes, dragStartPositions, copiedNodes, pasteOffset,
                   isDirty, projectName, currentFilePath, pendingLoad,
                   pendingSave, disk, gesture>>

\* Pan: mouse down on the empty stage, mouse moves, mouse up.  isPanning and
\* lastPointerPos are the pointer gesture in flight.
HandleMouseDown(pos) ==
    /\ PointerFree
    /\ gesture' = [kind |-> "pan", id |-> NoId, x |-> pos.x, y |-> pos.y]
    /\ Returned("mouseDown", FALSE)
    /\ UNCHANGED <<nodes, edges, nextNode, nextEdge, past, future, isUndoingRef,
                   selectedNodeIds, selectedEdgeId, editing, connectionDrag,
                   draggingNodes, dragStartPositions, copiedNodes, pasteOffset,
                   isDirty, camera, projectName, currentFilePath, pendingLoad,
                   pendingSave, disk,
                   budget>>

HandleMouseMove(pos) ==
    /\ gesture.kind = "pan"
    /\ budget > 0
    /\ budget' = budget - 1
    /\ LET dx == FSub(FromInt(pos.x), FromInt(gesture.x))
           dy == FSub(FromInt(pos.y), FromInt(gesture.y))
       IN  camera' = [camera EXCEPT !.x = FAdd(@, dx), !.y = FAdd(@, dy)]
    /\ gesture' = [gesture EXCEPT !.x = pos.x, !.y = pos.y]
    /\ Returned("mouseMove", FALSE)
    /\ UNCHANGED <<nodes, edges, nextNode, nextEdge, past, future, isUndoingRef,
                   selectedNodeIds, selectedEdgeId, editing, connectionDrag,
                   draggingNodes, dragStartPositions, copiedNodes, pasteOffset,
                   isDirty, projectName, currentFilePath, pendingLoad,
                   pendingSave, disk>>

HandleMouseUp ==
    /\ gesture.kind = "pan"
    /\ gesture' = NoGesture
    /\ Returned("mouseUp", FALSE)
    /\ UNCHANGED <<nodes, edges, nextNode, nextEdge, past, future, isUndoingRef,
                   selectedNodeIds, selectedEdgeId, editing, connectionDrag,
                   draggingNodes, dragStartPositions, copiedNodes, pasteOffset,
                   isDirty, camera, projectName, currentFilePath, pendingLoad,
                   pendingSave, disk,
                   budget>>

\* Project files with a saved camera: the sample graph seen at the default
\* scale, at either end of the zoom range, at 2.9 (less than one step below
\* the maximum), and a file whose zoom is 5.
SavedZooms ==
    {FromInt(1), minScale, maxScale, FDiv(FromInt(29), FromInt(10)), FromInt(5)}

SavedProject(zoom, px, py) ==
    [meta |-> [name |-> "Saved", canvas |-> [zoom |-> zoom, x |-> px, y |-> py]],
     nodes |-> SampleProject.nodes,
     edges |-> EmptyMap]

CameraProjects ==
    {SavedProject(z, FromInt(px), Zero) : z \in SavedZooms, px \in {0, -40}}

(***************************************************************************)
(* Observation of a run of SpecHistory: a streak of n <= maxSize recorded  *)
(* actions, the first from the graph base and the last leaving the graph   *)
(* top, then undone undos in a row, then redone redos in a row.            *)
(***************************************************************************)
NoStreak ==
    [base |-> Snapshot(EmptyMap, EmptyMap), top |-> Snapshot(EmptyMap, EmptyMap),
     n |-> 0, undone |-> 0, redone |-> 0]

StreakStep ==
    IF budget' < budget
    THEN IF streak.n > 0 /\ streak.undone = 0 /\ streak.n < maxSize
         THEN [streak EXCEPT !.n = @ + 1, !.top = Snapshot(nodes', edges')]
         ELSE [base |-> Snapshot(nodes, edges), top |-> Snapshot(nodes', edges'),
               n |-> 1, undone |-> 0, redone |-> 0]
    ELSE IF lastOp' = "undo" /\ lastRet'
    THEN IF streak.n > 0 /\ streak.redone = 0 /\ streak.undone < streak.n
         THEN [streak EXCEPT !.undone = @ + 1]
         ELSE NoStreak
    ELSE IF lastOp' = "redo" /\ lastRet'
    THEN IF streak.n > 0 /\ streak.undone = streak.n /\ streak.redone < streak.n
         THEN [streak EXCEPT !.redone = @ + 1]
         ELSE NoStreak
    ELSE streak

Tracked == streak' = StreakStep

Untracked == UNCHANGED streak

(***************************************************************************)
(* The canvas after mount: empty, history empty, nothing selected.  With   *)
(* an initial project path the load of that project is in flight.          *)
(***************************************************************************)
\* The state after construction, but for the camera.
MountedState(initialProjectPath, ops) ==
    /\ nodes = EmptyMap
    /\ edges = EmptyMap
    /\ nextNode = IF initialProjectPath = <<>> THEN 0 ELSE 2
    /\ nextEdge = 0
    /\ past = <<>>
    /\ future = <<>>
    /\ isUndoingRef = FALSE
    /\ selectedNodeIds = {}
    /\ selectedEdgeId = NoId
    /\ editing = <<>>
    /\ connectionDrag = <<>>
    /\ draggingNodes = EmptyMap
    /\ dragStartPositions = EmptyMap
    /\ copiedNodes = <<>>
    /\ pasteOffset = Point(0, 0)
    /\ isDirty = FALSE
    /\ projectName = "Untitled"
    /\ currentFilePath = ""
    /\ pendingLoad = initialProjectPath
    /\ pendingSave = <<>>
    /\ gesture = NoGesture
    /\ lastOp = "mount"
    /\ lastRet = FALSE
    /\ budget = ops
    /\ streak = NoStreak

\* The camera at (0, 0) and scale 1: pointers and nodes at whole coordinates
\* convert between screen and canvas without rounding.
Mounted(initialProjectPath, ops) ==
    /\ MountedState(initialProjectPath, ops)
    /\ camera = [x |-> 0, y |-> 0, scale |-> 1]
    /\ disk = NoFiles

(***************************************************************************)
(* The runs of the model.  A run is one session of a user who waits for    *)
(* the initial load and then selects, creates, undoes and redoes, and      *)
(* besides that works with one kind of gesture, which `session` names:     *)
(*   connect  connections, edge selection and labels, Delete, Escape;      *)
(*   drag     node drags;                                                  *)
(*   edit     inline edits of titles and descriptions;                     *)
(*   shape    resize, collapse, title colour, Delete, Ctrl+N;              *)
(*   paste    copy and paste.                                              *)
(***************************************************************************)
Sessions == {"connect", "drag", "edit", "shape", "paste"}

\* A run about the history alone: a new project, no gesture but the collapse
\* toggle, and more recorded actions than maxSize.
InitHistory == Mounted(<<>>, MaxHistoryOps) /\ session = "history"

\* Opened from the welcome screen: a new project, or the sample project.
Init ==
    /\ \E path \in {<<>>, <<"sample.json">>} : Mounted(path, MaxOps)
    /\ session \in Sessions

Loaded == pendingLoad = <<>>

In(kinds) == Loaded /\ session \in kinds

NodeIds == DOMAIN nodes
EdgeIds == DOMAIN edges

Next ==
    \/ LoadProjectDone([success |-> TRUE, data |-> <<SampleProject>>]) /\ Untracked
    \/ Loaded /\ HandleUndo /\ Untracked
    \/ Loaded /\ HandleRedo /\ Untracked
    \/ Loaded /\ (\E p \in CreatePoints : CreateNodeAtPointer(p)) /\ Untracked
    \/ Loaded /\ (\E n \in NodeIds, c \in BOOLEAN : HandleNodeClick(n, c)) /\ Untracked
    \/ In({"connect", "shape"}) /\ KeyDelete /\ Untracked
    \/ In({"connect"}) /\ KeyEscape /\ Untracked
    \/ In({"connect"}) /\ HandleStageClick /\ Untracked
    \/ In({"connect"}) /\ (\E e \in EdgeIds : HandleEdgeClick(e)) /\ Untracked
    \/ In({"connect"}) /\ (\E n \in NodeIds, pos \in StartPositions :
                               HandleConnectionStart(n, pos)) /\ Untracked
    \/ In({"connect"}) /\ (\E p \in ConnPoints : HandleConnectionMove(p)) /\ Untracked
    \/ In({"connect"}) /\ HandleConnectionEnd /\ Untracked
    \/ In({"connect"}) /\ (\E e \in EdgeIds : StartEditingEdgeLabel(e)) /\ Untracked
    \/ In({"drag"}) /\ (\E n \in NodeIds, p \in DragPoints :
                            HandleNodeDragMove(n, p)) /\ Untracked
    \/ In({"drag"}) /\ HandleNodeDragEnd /\ Untracked
    \/ In({"shape"}) /\ (\E n \in NodeIds, sz \in ResizeSizes :
                             HandleNodeResize(n, sz.width, sz.height)) /\ Untracked
    \/ In({"shape"}) /\ (\E n \in NodeIds : HandleToggleCollapse(n)) /\ Untracked
    \/ In({"shape"}) /\ (\E n \in NodeIds : HandleToggleTitleColor(n)) /\ Untracked
    \/ In({"shape"}) /\ (\E confirmed \in BOOLEAN : KeyNewProject(confirmed)) /\ Untracked
    \/ In({"edit"}) /\ (\E n \in NodeIds, f \in {"title", "description"} :
                            StartEditing(n, f)) /\ Untracked
    \/ In({"edit", "connect"}) /\ (\E v \in TextValues : HandleSaveEdit(v)) /\ Untracked
    \/ In({"edit", "connect"}) /\ HandleCancelEdit /\ Untracked
    \/ In({"paste"}) /\ HandleCopy /\ Untracked
    \/ In({"paste"}) /\ (\E pointer \in PastePointers : HandlePaste(pointer)) /\ Untracked

\* The steps of a run about the history alone.
NextHistory ==
    \/ HandleUndo /\ Tracked
    \/ HandleRedo /\ Tracked
    \/ KeyDelete /\ Tracked
    \/ (\E p \in CreatePoints : CreateNodeAtPointer(p)) /\ Tracked
    \/ (\E n \in NodeIds, c \in BOOLEAN : HandleNodeClick(n, c)) /\ Tracked
    \/ (\E n \in NodeIds : HandleToggleCollapse(n)) /\ Tracked

\* A run about connection drawing: the pointer passes through SnapPoints.
InitConnect ==
    /\ \E path \in {<<>>, <<"sample.json">>} : Mounted(path, MaxOps)
    /\ session = "connect"

NextConnect ==
    \/ LoadProjectDone([success |-> TRUE, data |-> <<SampleProject>>]) /\ Untracked
    \/ Loaded /\ HandleUndo /\ Untracked
    \/ Loaded /\ (\E p \in CreatePoints : CreateNodeAtPointer(p)) /\ Untracked
    \/ Loaded /\ KeyEscape /\ Untracked
    \/ Loaded /\ (\E n \in NodeIds, pos \in StartPositions :
                      HandleConnectionStart(n, pos)) /\ Untracked
    \/ Loaded /\ (\E p \in SnapPoints : HandleConnectionMove(p)) /\ Untracked
    \/ Loaded /\ HandleConnectionEnd /\ Untracked

\* Another project file: node 1 collapsed, titled and coloured, linked to
\* node 2.
LinkedProject ==
    [meta |-> [name |-> "Linked", canvas |-> [zoom |-> 1, x |-> 0, y |-> 0]],
     nodes |-> updateNode(SampleProject.nodes, 1,
                          [title |-> "a", collapsed |-> TRUE, titleColor |-> "blue"]),
     edges |-> createEdge(EmptyMap, 1, 1, 2).edges]

\* A run about the clipboard: the linked project, with a collapse toggle or a
\* delete between the copy and the paste.
InitPaste == Mounted(<<"linked.json">>, MaxOps) /\ session = "paste"

NextPaste ==
    \/ LoadProjectDone([success |-> TRUE, data |-> <<LinkedProject>>]) /\ Untracked
    \/ Loaded /\ (\E n \in NodeIds, c \in BOOLEAN : HandleNodeClick(n, c)) /\ Untracked
    \/ Loaded /\ (\E n \in NodeIds : HandleToggleCollapse(n)) /\ Untracked
    \/ Loaded /\ KeyDelete /\ Untracked
    \/ Loaded /\ HandleCopy /\ Untracked
    \/ Loaded /\ (\E pointer \in PastePointers : HandlePaste(pointer)) /\ Untracked

\* A run about the interaction modes: the sample project, node drags,
\* connection drags and inline edits in one session.
InitModes == Mounted(<<"sample.json">>, MaxOps) /\ session = "modes"

NextModes ==
    \/ LoadProjectDone([success |-> TRUE, data |-> <<SampleProject>>]) /\ Untracked
    \/ Loaded /\ (\E n \in NodeIds, c \in BOOLEAN : HandleNodeClick(n, c)) /\ Untracked
    \/ Loaded /\ (\E n \in NodeIds, p \in DragPoints :
                      HandleNodeDragMove(n, p)) /\ Untracked
    \/ Loaded /\ HandleNodeDragEnd /\ Untracked
    \/ Loaded /\ (\E n \in NodeIds, pos \in StartPositions :
                      HandleConnectionStart(n, pos)) /\ Untracked
    \/ Loaded /\ (\E p \in ConnPoints : HandleConnectionMove(p)) /\ Untracked
    \/ Loaded /\ HandleConnectionEnd /\ Untracked
    \/ Loaded /\ (\E n \in NodeIds, f \in {"title", "description"} :
                      StartEditing(n, f)) /\ Untracked
    \/ Loaded /\ (\E v \in TextValues : HandleSaveEdit(v)) /\ Untracked
    \/ Loaded /\ HandleCancelEdit /\ Untracked

\* A run about the camera: a new project or a saved one, then wheel steps
\* and pans.
InitCamera ==
    /\ \E path \in {<<>>, <<"saved.json">>} : MountedState(path, MaxCameraOps)
    /\ camera = InitialCamera
    /\ disk = NoFiles
    /\ session = "camera"

NextCamera ==
    \/ (\E project \in CameraProjects :
           LoadProjectDone([success |-> TRUE, data |-> <<project>>])) /\ Untracked
    \/ Loaded /\ (\E pointer \in WheelPointers, direction \in {1, -1} :
                      HandleWheel(pointer, direction)) /\ Untracked
    \/ Loaded /\ (\E pos \in WheelPointers : HandleMouseDown(pos)) /\ Untracked
    \/ Loaded /\ (\E pos \in WheelPointers : HandleMouseMove(pos)) /\ Untracked
    \/ Loaded /\ HandleMouseUp /\ Untracked

\* A project file with node 1 at (0, 0) linked to node 2 at (300, 0).
ArrowProject ==
    [meta |-> [name |-> "Arrow", canvas |-> [zoom |-> 1, x |-> 0, y |-> 0]],
     nodes |-> createNode(createNode(EmptyMap, 1, 0, 0), 2, 300, 0),
     edges |-> createEdge(EmptyMap, 1, 1, 2).edges]

\* Positions a dragged node is moved to: below, to the left, above, and off
\* both axes.
ArrowDragPoints == {Point(0, 200), Point(-300, 0), Point(40, -260), Point(250, 90)}

\* A run about the arrows: the arrow project, its nodes dragged about,
\* collapsed and resized.
InitArrow == Mounted(<<"arrow.json">>, MaxOps) /\ session = "arrow"

NextArrow ==
    \/ LoadProjectDone([success |-> TRUE, data |-> <<ArrowProject>>]) /\ Untracked
    \/ Loaded /\ (\E n \in NodeIds : HandleNodeClick(n, FALSE)) /\ Untracked
    \/ Loaded /\ (\E n \in NodeIds, p \in ArrowDragPoints :
                      HandleNodeDragMove(n, p)) /\ Untracked
    \/ Loaded /\ HandleNodeDragEnd /\ Untracked
    \/ Loaded /\ (\E n \in NodeIds, sz \in ResizeSizes :
                      HandleNodeResize(n, sz.width, sz.height)) /\ Untracked
    \/ Loaded /\ (\E n \in NodeIds : HandleToggleCollapse(n)) /\ Untracked

\* The linked project as a session saved it, zoomed in and panned.
PannedProject ==
    [meta |-> [name |-> "Panned", created |-> "earlier",
               canvas |-> [zoom |-> 2, x |-> -40, y |-> 10]],
     nodes |-> LinkedProject.nodes,
     edges |-> LinkedProject.edges]

\* The project directory before the run: one saved project.
InitialDisk ==
    writeFile(NoFiles, "a.json", stringify(PannedProject))

\* A run about the project file: a new project or the panned one, edits,
\* saves, opens and new projects.
InitProject ==
    /\ \E path \in {<<>>, <<"a.json">>} : MountedState(path, MaxOps)
    /\ camera = [x |-> 0, y |-> 0, scale |-> 1]
    /\ disk = InitialDisk
    /\ session = "project"

NextProject ==
    \/ /\ pendingLoad # <<>>
       /\ \E result \in ReadResults(pendingLoad[1]) : LoadProjectDone(result)
       /\ Untracked
    \/ Loaded /\ HandleUndo /\ Untracked
    \/ Loaded /\ (\E n \in NodeIds : HandleNodeClick(n, FALSE)) /\ Untracked
    \/ Loaded /\ KeyDelete /\ Untracked
    \/ Loaded /\ (\E n \in NodeIds : HandleToggleTitleColor(n)) /\ Untracked
    \/ Loaded /\ (\E dialogResult \in DialogResults : KeySave(dialogResult)) /\ Untracked
    \/ Loaded /\ (\E dialogResult \in DialogResults : SaveAs(dialogResult)) /\ Untracked
    \/ (\E success \in BOOLEAN : SaveProjectDone(success)) /\ Untracked
    \/ Loaded /\ (\E dialogResult \in ImageDialogResults, success \in BOOLEAN :
                      KeyExportImage(dialogResult, success)) /\ Untracked
    \/ Loaded /\ (\E confirmed \in BOOLEAN, dialogResult \in DialogResults :
                      KeyOpen(confirmed, dialogResult)) /\ Untracked
    \/ Loaded /\ (\E confirmed \in BOOLEAN : KeyNewProject(confirmed)) /\ Untracked

(***************************************************************************)
(* The list-recent-projects handler.  A file name of the projects          *)
(* directory is a base and an extension; the text of a file is <<json>> or *)
(* <<>> as above.  The created field of an entry is left out.              *)
(***************************************************************************)
MaxFiles == 6           \* .json files in the projects directory
MaxRecent == 5

BaseNames == <<"p1", "p2", "p3", "p4", "p5", "p6", "p7", "p8">>

FileNames ==
    {[base |-> BaseNames[i], ext |-> ".json"] : i \in 1..MaxFiles}
        \cup {[base |-> "notes", ext |-> ".txt"]}

endsWith(file, suffix) == file.ext = suffix

basename(file, ext) == IF file.ext = ext THEN file.base ELSE "unset"

\* project.meta?.name: undefined when meta or name is missing.
MetaName(project) ==
    IF "meta" \in DOMAIN project /\ "name" \in DOMAIN project.meta
    THEN project.meta.name
    ELSE "unset"

\* Array.prototype.slice(start, end) for 0 <= start <= end.
slice(seq, start, end) ==
    SubSeq(seq, start + 1, IF end < Len(seq) THEN end ELSE Len(seq))

\* One element of the projects array.
RecentEntry(files, file) ==
    LET project == files[file].text[1]
        metaName == MetaName(project)
        fileName == basename(file, ".json")
        displayName == IF metaName \notin {"unset", ""} /\ metaName # "Untitled"
                       THEN metaName
                       ELSE fileName
    IN  [name |-> displayName, filePath |-> file, modified |-> files[file].modified]

\* Array.prototype.sort with the comparator b.modified - a.modified: stable,
\* the later modification first.
RECURSIVE sortByModified(_)
sortByModified(projects) ==
    IF Len(projects) <= 1 THEN projects
    ELSE LET rest == sortByModified(Tail(projects))
             first == Head(projects)
             before == {i \in 0..Len(rest) :
                           \A j \in 1..i : rest[j].modified > first.modified}
             at == CHOOSE i \in before : \A k \in before : k <= i
         IN  SubSeq(rest, 1, at) \o <<first>> \o SubSeq(rest, at + 1, Len(rest))

\* The handler, for the files in the order readdir gives them: a file that
\* does not parse throws, and the catch returns the empty list.
listRecentProjects(files, dir) ==
    LET jsonFiles == SelectSeq(dir, LAMBDA f : endsWith(f, ".json"))
    IN  IF \E i \in 1..Len(jsonFiles) : files[jsonFiles[i]].text = <<>>
        THEN <<>>
        ELSE LET projects == [i \in 1..Len(jsonFiles) |->
                                 RecentEntry(files, jsonFiles[i])]
                 sorted == sortByModified(projects)
             IN  slice(sorted, 0, MaxRecent)

\* The files of a directory by name, forwards or backwards.
RECURSIVE ByName(_, _)
ByName(present, i) ==
    IF i > Len(BaseNames) THEN
        IF [base |-> "notes", ext |-> ".txt"] \in present
        THEN <<[base |-> "notes", ext |-> ".txt"]>> ELSE <<>>
    ELSE (IF [base |-> BaseNames[i], ext |-> ".json"] \in present
          THEN <<[base |-> BaseNames[i], ext |-> ".json"]>> ELSE <<>>)
         \o ByName(present, i + 1)

Reverse(seq) == [i \in 1..Len(seq) |-> seq[Len(seq) + 1 - i]]

readdir(files) == {ByName(DOMAIN files, 1), Reverse(ByName(DOMAIN files, 1))}

\* What a file of the directory can hold: a named project, an untitled one,
\* a project whose meta has no name, and text that is not JSON.
FileTexts ==
    {<<[meta |-> [name |-> "Plan", created |-> "earlier"]]>>,
     <<[meta |-> [name |-> "Untitled", created |-> "earlier"]]>>,
     <<[meta |-> [created |-> "earlier"]]>>,
     <<>>}

Index(file) ==
    IF file.ext = ".json"
    THEN CHOOSE i \in 1..Len(BaseNames) : BaseNames[i] = file.base
    ELSE 0

\* Modification times: rising with the name, falling with it, and in pairs.
FileTimes ==
    {[file \in FileNames |-> Index(file) + 1],
     [file \in FileNames |-> MaxFiles + 1 - Index(file)],
     [file \in FileNames |-> (Index(file) + 1) \div 2 + 1]}

\* The directories of a run: any of the files, named projects but for at
\* most one file.
Directories ==
    {[file \in present |->
         [modified |-> times[file],
          text |-> IF file = odd THEN text
                   ELSE <<[meta |-> [name |-> "Plan", created |-> "earlier"]]>>]] :
        present \in SUBSET FileNames, times \in FileTimes,
        odd \in FileNames, text \in FileTexts}

ListRecentProjects ==
    /\ \E dir \in readdir(disk) : Returned("listRecent", listRecentProjects(disk, dir))
    /\ UNCHANGED <<nodes, edges, nextNode, nextEdge, past, future, isUndoingRef,
                   selectedNodeIds, selectedEdgeId, editing, connectionDrag,
                   draggingNodes, dragStartPositions, copiedNodes, pasteOffset,
                   isDirty, camera, projectName, currentFilePath, pendingLoad,
                   pendingSave, disk, gesture, budget>>

\* A run about the welcome screen: a projects directory, listed.
InitRecent ==
    /\ MountedState(<<>>, MaxOps)
    /\ camera = [x |-> 0, y |-> 0, scale |-> 1]
    /\ disk \in Directories
    /\ session = "recent"

NextRecent == ListRecentProjects /\ Untracked

\* A run about selection, Escape and Delete: the linked project, clicks,
\* connection drags and inline edits.
InitSelect == Mounted(<<"linked.json">>, MaxOps) /\ session = "select"

NextSelect ==
    \/ LoadProjectDone([success |-> TRUE, data |-> <<LinkedProject>>]) /\ Untracked
    \/ Loaded /\ HandleUndo /\ Untracked
    \/ Loaded /\ (\E n \in NodeIds, c \in BOOLEAN : HandleNodeClick(n, c)) /\ Untracked
    \/ Loaded /\ HandleStageClick /\ Untracked
    \/ Loaded /\ (\E e \in EdgeIds : HandleEdgeClick(e)) /\ Untracked
    \/ Loaded /\ KeyDelete /\ Untracked
    \/ Loaded /\ KeyEscape /\ Untracked
    \/ Loaded /\ (\E n \in NodeIds, pos \in StartPositions :
                      HandleConnectionStart(n, pos)) /\ Untracked
    \/ Loaded /\ (\E p \in ConnPoints : HandleConnectionMove(p)) /\ Untracked
    \/ Loaded /\ HandleConnectionEnd /\ Untracked
    \/ Loaded /\ (\E n \in NodeIds : StartEditing(n, "title")) /\ Untracked
    \/ Loaded /\ (\E e \in EdgeIds : StartEditingEdgeLabel(e)) /\ Untracked
    \/ Loaded /\ (\E v \in TextValues : HandleSaveEdit(v)) /\ Untracked
    \/ Loaded /\ HandleCancelEdit /\ Untracked

\* Sizes the resize handle reports: above, at, and below the minimum.
ClampSizes ==
    {[width |-> 300, height |-> 200], [width |-> 120, height |-> 60],
     [width |-> 119, height |-> 200], [width |-> 50, height |-> -10]}

\* A run about node sizes: the sample project, nodes created, resized,
\* copied and pasted, with undo and redo.
InitResize == Mounted(<<"sample.json">>, MaxOps) /\ session = "resize"

NextResize ==
    \/ LoadProjectDone([success |-> TRUE, data |-> <<SampleProject>>]) /\ Untracked
    \/ Loaded /\ HandleUndo /\ Untracked
    \/ Loaded /\ HandleRedo /\ Untracked
    \/ Loaded /\ (\E p \in CreatePoints \cup ConnPoints : CreateNodeAtPointer(p)) /\ Untracked
    \/ Loaded /\ (\E n \in NodeIds : HandleNodeClick(n, FALSE)) /\ Untracked
    \/ Loaded /\ (\E n \in NodeIds, sz \in ClampSizes :
                      HandleNodeResize(n, sz.width, sz.height)) /\ Untracked
    \/ Loaded /\ HandleCopy /\ Untracked
    \/ Loaded /\ (\E pointer \in PastePointers : HandlePaste(pointer)) /\ Untracked

(***************************************************************************)
(* The operations of useNodes and useEdges called with any id, in the      *)
(* store or not.  lastRet is the id of the call.                           *)
(***************************************************************************)
StoreIds == 1..MaxNodes

NodeUpdates == {[title |-> "a"], [x |-> 50, y |-> -20], [collapsed |-> TRUE]}

EdgeUpdates == {[label |-> "a"]}

StoreFrame ==
    UNCHANGED <<nextNode, nextEdge, past, future, isUndoingRef, selectedNodeIds,
                selectedEdgeId, editing, connectionDrag, draggingNodes,
                dragStartPositions, copiedNodes, pasteOffset, isDirty, camera,
                projectName, currentFilePath, pendingLoad, pendingSave, disk,
                gesture>>

\* One call of an operation of useNodes that leaves ns as the store.
NodeStoreCall(op, id, ns) ==
    /\ budget > 0
    /\ budget' = budget - 1
    /\ nodes' = ns
    /\ UNCHANGED edges
    /\ Returned(op, id)
    /\ StoreFrame

\* One call of an operation of useEdges that leaves es as the store.
EdgeStoreCall(op, id, es) ==
    /\ budget > 0
    /\ budget' = budget - 1
    /\ edges' = es
    /\ UNCHANGED nodes
    /\ Returned(op, id)
    /\ StoreFrame

NodeStoreOps == {"updateNode", "moveNode", "resizeNode", "toggleCollapse", "deleteNode"}

EdgeStoreOps == {"updateEdge", "deleteEdge"}

\* A run about the stores: the linked project, then calls with ids in and
\* out of the stores.
InitStore == Mounted(<<"linked.json">>, MaxOps) /\ session = "store"

NextStore ==
    \/ LoadProjectDone([success |-> TRUE, data |-> <<LinkedProject>>]) /\ Untracked
    \/ Loaded /\ (\E id \in StoreIds, updates \in NodeUpdates :
                      NodeStoreCall("updateNode", id, updateNode(nodes, id, updates)))
              /\ Untracked
    \/ Loaded /\ (\E id \in StoreIds, p \in DragPoints :
                      NodeStoreCall("moveNode", id, moveNode(nodes, id, p.x, p.y)))
              /\ Untracked
    \/ Loaded /\ (\E id \in StoreIds, sz \in ClampSizes :
                      NodeStoreCall("resizeNode", id,
                                    resizeNode(nodes, id, sz.width, sz.height)))
              /\ Untracked
    \/ Loaded /\ (\E id \in StoreIds :
                      NodeStoreCall("toggleCollapse", id, toggleCollapse(nodes, id)))
              /\ Untracked
    \/ Loaded /\ (\E id \in StoreIds :
                      NodeStoreCall("deleteNode", id, deleteNode(nodes, id)))
              /\ Untracked
    \/ Loaded /\ (\E id \in StoreIds, updates \in EdgeUpdates :
                      EdgeStoreCall("updateEdge", id, updateEdge(edges, id, updates)))
              /\ Untracked
    \/ Loaded /\ (\E id \in StoreIds :
                      EdgeStoreCall("deleteEdge", id, deleteEdge(edges, id)))
              /\ Untracked

\* A run about the two selections: the linked project, every kind of click,
\* node creation, copy and paste, Delete and Escape.
InitExclusive == Mounted(<<"linked.json">>, MaxOps) /\ session = "exclusive"

NextExclusive ==
    \/ LoadProjectDone([success |-> TRUE, data |-> <<LinkedProject>>]) /\ Untracked
    \/ Loaded /\ (\E n \in NodeIds, c \in BOOLEAN : HandleNodeClick(n, c)) /\ Untracked
    \/ Loaded /\ HandleStageClick /\ Untracked
    \/ Loaded /\ (\E e \in EdgeIds : HandleEdgeClick(e)) /\ Untracked
    \/ Loaded /\ (\E p \in ConnPoints : CreateNodeAtPointer(p)) /\ Untracked
    \/ Loaded /\ HandleCopy /\ Untracked
    \/ Loaded /\ HandlePaste(<<>>) /\ Untracked
    \/ Loaded /\ KeyDelete /\ Untracked
    \/ Loaded /\ KeyEscape /\ Untracked

(***************************************************************************)
(* A run about the dirty flag: the sample project opened from the disk,    *)
(* the saves, opens and new projects of useProject, undo and redo, and the *)
(* store-changing handlers of Canvas of one kind of gesture (`session`).   *)
(***************************************************************************)
InitDirty ==
    /\ MountedState(<<"a.json">>, MaxOps)
    /\ camera = [x |-> 0, y |-> 0, scale |-> 1]
    /\ disk = writeFile(NoFiles, "a.json", stringify(SampleProject))
    /\ session \in Sessions

NextDirty ==
    \/ /\ pendingLoad # <<>>
       /\ \E result \in ReadResults(pendingLoad[1]) : LoadProjectDone(result)
       /\ Untracked
    \/ Loaded /\ HandleUndo /\ Untracked
    \/ Loaded /\ HandleRedo /\ Untracked
    \/ Loaded /\ KeySave(<<"a.json">>) /\ Untracked
    \/ (\E success \in BOOLEAN : SaveProjectDone(success)) /\ Untracked
    \/ Loaded /\ (\E confirmed \in BOOLEAN : KeyOpen(confirmed, <<"a.json">>)) /\ Untracked
    \/ Loaded /\ (\E confirmed \in BOOLEAN : KeyNewProject(confirmed)) /\ Untracked
    \/ In({"edit"}) /\ (\E n \in NodeIds : HandleNodeClick(n, FALSE)) /\ Untracked
    \/ In({"connect"}) /\ (\E e \in EdgeIds : HandleEdgeClick(e)) /\ Untracked
    \/ In({"connect", "edit"}) /\ KeyDelete /\ Untracked
    \/ In({"connect"}) /\ (\E n \in NodeIds, pos \in StartPositions :
                               HandleConnectionStart(n, pos)) /\ Untracked
    \/ In({"connect"}) /\ (\E p \in ConnPoints : HandleConnectionMove(p)) /\ Untracked
    \/ In({"connect"}) /\ HandleConnectionEnd /\ Untracked
    \/ In({"drag"}) /\ (\E n \in NodeIds, p \in DragPoints :
                            HandleNodeDragMove(n, p)) /\ Untracked
    \/ In({"drag"}) /\ HandleNodeDragEnd /\ Untracked
    \/ In({"shape", "paste"}) /\ (\E p \in ConnPoints : CreateNodeAtPointer(p)) /\ Untracked
    \/ In({"shape"}) /\ (\E n \in NodeIds, sz \in ResizeSizes :
                             HandleNodeResize(n, sz.width, sz.height)) /\ Untracked
    \/ In({"shape"}) /\ (\E n \in NodeIds : HandleToggleCollapse(n)) /\ Untracked
    \/ In({"shape"}) /\ (\E n \in NodeIds : HandleToggleTitleColor(n)) /\ Untracked
    \/ In({"edit"}) /\ (\E n \in NodeIds : StartEditing(n, "title")) /\ Untracked
    \/ In({"edit"}) /\ (\E v \in TextValues : HandleSaveEdit(v)) /\ Untracked
    \/ In({"paste"}) /\ HandleCopy /\ Untracked
    \/ In({"paste"}) /\ HandlePaste(<<>>) /\ Untracked

Spec == Init /\ [][Next]_vars

SpecDirty == InitDirty /\ [][NextDirty]_vars

SpecRecent == InitRecent /\ [][NextRecent]_vars

SpecSelect == InitSelect /\ [][NextSelect]_vars

SpecResize == InitResize /\ [][NextResize]_vars

SpecStore == InitStore /\ [][NextStore]_vars

SpecExclusive == InitExclusive /\ [][NextExclusive]_vars

SpecProject == InitProject /\ [][NextProject]_vars

SpecArrow == InitArrow /\ [][NextArrow]_vars

SpecCamera == InitCamera /\ [][NextCamera]_vars

SpecModes == InitModes /\ [][NextModes]_vars

SpecPaste == InitPaste /\ [][NextPaste]_vars

SpecConnect == InitConnect /\ [][NextConnect]_vars

SpecHistory == InitHistory /\ [][NextHistory]_vars


(***************************************************************************)
(* Properties.                                                             *)
(***************************************************************************)
Graph == Snapshot(nodes, edges)

HistoryAfter == [past |-> past', future |-> future']

\* The step recorded a snapshot: the handler called saveStateForUndo.
Recorded == budget' < budget

\* C1: after Delete or Backspace removes the selected nodes, no edge left in
\* the edge store has `from` or `to` equal to the id of a removed node.
C1_DeletePrunesEdges ==
    [][lastOp' = "delete" =>
          \A e \in DOMAIN edges' :
              /\ edges'[e].from \notin DOMAIN nodes \ DOMAIN nodes'
              /\ edges'[e].to \notin DOMAIN nodes \ DOMAIN nodes']_vars

\* C2: after a streak of N <= maxSize recorded actions, N undos restore the
\* node and edge maps that existed before the first action, and N redos
\* after them restore the maps that existed after the last action.
C2_UndoRedoInverse ==
    /\ (streak.n > 0 /\ streak.undone = streak.n /\ streak.redone = 0)
           => Graph = streak.base
    /\ (streak.n > 0 /\ streak.redone = streak.n) => Graph = streak.top

\* Two actions, two undos and two redos have been performed in this order.
C2_Witness ==
    /\ streak.n >= 2
    /\ streak.redone = streak.n
    /\ streak.base # streak.top

\* The handlers of the user actions that mutate the graph.
MutatingOps ==
    {"create", "dragEnd", "resize", "toggleCollapse", "toggleTitleColor",
     "saveEdit", "paste", "delete", "connectionEnd"}

C4_MultiDragCommit ==
    [][(/\ lastOp' = "dragEnd"
        /\ gesture.kind = "node"
        /\ MultiDrag(gesture.id)
        /\ \A id \in selectedNodeIds :
               /\ id \in DOMAIN nodes
               /\ id \in DOMAIN dragStartPositions
               /\ dragStartPositions[id] = Point(nodes[id].x, nodes[id].y))
       => LET dx == gesture.x - nodes[gesture.id].x
              dy == gesture.y - nodes[gesture.id].y
          IN  \A id \in selectedNodeIds :
                  /\ nodes'[id].x = nodes[id].x + dx
                  /\ nodes'[id].y = nodes[id].y + dy]_vars

\* C5: createEdge(a, a) returns null and leaves the store unchanged;
\* createEdge(b, a) after a successful createEdge(a, b) returns null; and the
\* edge store holds no self-edge and no two edges connecting the same
\* unordered pair of nodes.
C5_EdgeValidity ==
    /\ \A a \in 1..MaxNodes :
           createEdge(edges, nextEdge + 1, a, a) = [ok |-> FALSE, edges |-> edges]
    /\ \A a, b \in 1..MaxNodes :
           LET first == createEdge(edges, nextEdge + 1, a, b)
           IN  first.ok => ~createEdge(first.edges, nextEdge + 2, b, a).ok
    /\ \A e \in DOMAIN edges : edges[e].from # edges[e].to
    /\ \A e, f \in DOMAIN edges :
           e # f => {edges[e].from, edges[e].to} # {edges[f].from, edges[f].to}

\* Two connections were drawn between the nodes 1 and 2, and the second one
\* was rejected: both were recorded, and only the first changed the graph.
C5_Witness ==
    /\ lastOp = "connectionEnd"
    /\ ~lastRet
    /\ budget = MaxOps - 2
    /\ Len(past) = 2
    /\ past[1].edges = EmptyMap
    /\ past[2].edges = edges
    /\ Cardinality(DOMAIN edges) = 1
    /\ past[1].nodes = nodes
    /\ past[2].nodes = nodes

\* C6: every selected node id is a key of the node store, and the selected
\* edge id, when set, is a key of the edge store.
C6_SelectionExists ==
    /\ selectedNodeIds \subseteq DOMAIN nodes
    /\ selectedEdgeId # NoId => selectedEdgeId \in DOMAIN edges

\* C7: the past never holds more than maxSize snapshots, and a pushState on
\* a full past evicts the oldest snapshot and keeps the others in order.
C7_HistoryBound ==
    [][/\ Len(past') <= maxSize
       /\ (Recorded /\ Len(past) = maxSize)
              => past' = Append(Tail(past), Graph)]_vars

\* The past is full and its oldest snapshot is no longer the empty graph the
\* run started from: a snapshot has been evicted.
C7_Witness ==
    /\ Len(past) = maxSize
    /\ past[1].nodes # EmptyMap
    /\ future = <<>>

\* C8: a pushState that is not suppressed empties the future, so redo then
\* returns false and changes nothing.
C8_LinearHistory ==
    [][/\ (Recorded /\ ~isUndoingRef) =>
              /\ future' = <<>>
              /\ redo(HistoryAfter, nodes', edges') =
                     [ok |-> FALSE, past |-> past', future |-> future',
                      nodes |-> nodes', edges |-> edges']
       /\ (lastOp' = "redo" /\ future = <<>>) =>
              /\ ~lastRet'
              /\ <<nodes', edges', past', future'>> = <<nodes, edges, past, future>>]_vars

\* A node was created, the creation undone, another node created (which
\* dropped the redo), and a redo then returned false.
C8_Witness ==
    /\ lastOp = "redo"
    /\ ~lastRet
    /\ budget = MaxHistoryOps - 2
    /\ Len(past) = 1
    /\ future = <<>>

\* C9: undo returns false and changes neither the stacks nor the graph when
\* the past is empty; otherwise it removes the last snapshot of the past,
\* appends the current graph to the future, applies the removed snapshot
\* and returns true.
C9_UndoSemantics ==
    [][lastOp' = "undo" =>
          IF past = <<>>
          THEN /\ ~lastRet'
               /\ <<nodes', edges', past', future'>> = <<nodes, edges, past, future>>
          ELSE /\ lastRet'
               /\ past' = Front(past)
               /\ future' = Append(future, Graph)
               /\ nodes' = Last(past).nodes
               /\ edges' = Last(past).edges]_vars

\* An undo has just replaced a graph by a different one.
C9_Witness ==
    /\ lastOp = "undo"
    /\ lastRet
    /\ future # <<>>
    /\ Last(future) # Graph

\* C10: redo returns false and changes nothing when the future is empty;
\* otherwise it removes the last snapshot of the future, appends the current
\* graph to the past, applies the removed snapshot and returns true; and a
\* redo right after an undo restores the graph and both stacks.
C10_RedoSemantics ==
    [][/\ lastOp' = "redo" =>
              IF future = <<>>
              THEN /\ ~lastRet'
                   /\ <<nodes', edges', past', future'>> =
                          <<nodes, edges, past, future>>
              ELSE /\ lastRet'
                   /\ future' = Front(future)
                   /\ past' = Append(past, Graph)
                   /\ nodes' = Last(future).nodes
                   /\ edges' = Last(future).edges
       /\ (lastOp' = "undo" /\ lastRet') =>
              redo(HistoryAfter, nodes', edges') =
                  [ok |-> TRUE, past |-> past, future |-> future,
                   nodes |-> nodes, edges |-> edges]]_vars

\* A redo has just replaced a graph by a different one.
C10_Witness ==
    /\ lastOp = "redo"
    /\ lastRet
    /\ past # <<>>
    /\ Last(past) # Graph

\* The handles of the nodes other than source.
OtherHandles(ns, source) ==
    {getHandlePoints(ns[n])[HandlePositions[i]] :
         n \in DOMAIN ns \ {source}, i \in 1..4}

\* C11: a connection drag is snapped to a nearest handle of a node other than
\* the source iff that handle is at a distance strictly less than 30 from the
\* pointer; the release of a snapped drag commits createEdge(source, snapped
\* node), the release of an unsnapped drag changes neither the graph, the
\* history nor the dirty flag; both clear the connection descriptor.
C11_SnapAndCommit ==
    [][/\ (lastOp' = "connectionMove" /\ connectionDrag # <<>>) =>
              LET d == connectionDrag'[1]
                  hs == OtherHandles(nodes, d.fromNodeId)
                  near == {h \in hs : Dist2(h, d.currentX, d.currentY) < 30 * 30}
              IN  /\ (d.snappedNodeId # NoId) <=> (near # {})
                  /\ d.snappedNodeId # NoId =>
                         \E h \in near :
                             /\ h.nodeId = d.snappedNodeId
                             /\ h.position = d.snappedPosition
                             /\ \A g \in hs :
                                    Dist2(h, d.currentX, d.currentY)
                                        <= Dist2(g, d.currentX, d.currentY)
       /\ (lastOp' = "connectionEnd" /\ connectionDrag # <<>>) =>
              /\ connectionDrag' = <<>>
              /\ IF connectionDrag[1].snappedNodeId # NoId
                 THEN LET r == createEdge(edges, nextEdge + 1,
                                          connectionDrag[1].fromNodeId,
                                          connectionDrag[1].snappedNodeId)
                      IN  edges' = r.edges /\ lastRet' = r.ok
                 ELSE UNCHANGED <<nodes, edges, past, future, isDirty>>]_vars

\* The pointer of a connection drag is at distance 29 from the handle the
\* drag is snapped to.
C11_Witness ==
    /\ lastOp = "connectionMove"
    /\ connectionDrag # <<>>
    /\ connectionDrag[1].snappedNodeId # NoId
    /\ \E h \in OtherHandles(nodes, connectionDrag[1].fromNodeId) :
           /\ h.nodeId = connectionDrag[1].snappedNodeId
           /\ h.position = connectionDrag[1].snappedPosition
           /\ Dist2(h, connectionDrag[1].currentX, connectionDrag[1].currentY)
                  = 29 * 29

\* C12: when a connection drag is released snapped onto a node already
\* connected to the source, in either direction, createEdge returns null, the
\* edge store is unchanged and the past and the future are as before the
\* release.
C12_RejectedRecordsNothing ==
    [][(/\ lastOp' = "connectionEnd"
        /\ connectionDrag # <<>>
        /\ connectionDrag[1].snappedNodeId # NoId
        /\ EdgeExists(edges, connectionDrag[1].fromNodeId,
                      connectionDrag[1].snappedNodeId))
       => /\ ~lastRet'
          /\ edges' = edges
          /\ past' = past
          /\ future' = future]_vars

\* The canvas position a paste with this pointer works from.
PasteCanvasPos(pointer) ==
    IF pointer # <<>>
    THEN screenToCanvas(pointer[1].x, pointer[1].y)
    ELSE screenToCanvas(ViewWidth \div 2, ViewHeight \div 2)

\* The offset a paste applied: the position of its first new node, whose id
\* is first + 1, minus the position of the first copied node.
AppliedOffset(ns, first) ==
    Point(ns[first + 1].x - copiedNodes[1].x, ns[first + 1].y - copiedNodes[1].y)

\* The paste before this state was made with this pointer.
PastedAt(pointer) ==
    LET first == nextNode - Len(copiedNodes)
    IN  /\ lastOp = "paste"
        /\ copiedNodes # <<>>
        /\ editing = <<>>
        /\ first + 1 \in DOMAIN nodes
        /\ AppliedOffset(nodes, first) =
              Point(PasteCanvasPos(pointer).x - (pasteOffset.x - PasteStagger),
                    PasteCanvasPos(pointer).y - (pasteOffset.y - PasteStagger))

\* C13: of two consecutive pastes with no copy between them and the pointer
\* at the same place, the second applies the offset of the first plus
\* exactly (20, 20).
C13_PasteStagger ==
    [][\A pointer \in PastePointers :
         (PastedAt(pointer) /\ HandlePaste(pointer))
         => LET before == AppliedOffset(nodes, nextNode - Len(copiedNodes))
                after == AppliedOffset(nodes', nextNode)
            IN  after = Point(before.x + PasteStagger, before.y + PasteStagger)]_vars

\* A one-to-one assignment of the new ids to the copied nodes under which
\* each new node has the copied title, description, size, collapsed flag and
\* title colour.
CopiesOf(ns, new, copied) ==
    \E ids \in [1..Len(copied) -> new] :
        /\ \A i, j \in 1..Len(copied) : ids[i] = ids[j] => i = j
        /\ \A i \in 1..Len(copied) :
               /\ ns[ids[i]].title = copied[i].title
               /\ ns[ids[i]].description = copied[i].description
               /\ ns[ids[i]].width = copied[i].width
               /\ ns[ids[i]].height = copied[i].height
               /\ ns[ids[i]].collapsed = copied[i].collapsed
               /\ ns[ids[i]].titleColor = copied[i].titleColor

\* C14: a paste adds exactly one node per copied node, under an id that was
\* not a key of the store, with the properties the copy recorded, whatever
\* became of the original since; it leaves every other node and the edges as
\* they were, selects exactly the new ids and selects no edge.
C14_PasteCopies ==
    [][(lastOp' = "paste" /\ copiedNodes # <<>> /\ editing = <<>>)
       => LET new == DOMAIN nodes' \ DOMAIN nodes
          IN  /\ Cardinality(new) = Len(copiedNodes)
              /\ DOMAIN nodes \subseteq DOMAIN nodes'
              /\ \A id \in DOMAIN nodes : nodes'[id] = nodes[id]
              /\ CopiesOf(nodes', new, copiedNodes)
              /\ edges' = edges
              /\ selectedNodeIds' = new
              /\ selectedEdgeId' = NoId]_vars

\* A paste of a node copied while collapsed, made after the original was
\* expanded again or deleted.
C14_Witness ==
    /\ lastOp = "paste"
    /\ copiedNodes # <<>>
    /\ \E i \in 1..Len(copiedNodes), id \in selectedNodeIds :
           /\ id \in DOMAIN nodes
           /\ copiedNodes[i].collapsed
           /\ nodes[id].collapsed
           /\ \/ copiedNodes[i].id \notin DOMAIN nodes
              \/ ~nodes[copiedNodes[i].id].collapsed

\* C15: of the three modes, a node drag in flight (a visual override is
\* held), a connection being drawn and a text edit in progress, at most one
\* is active in any state.
C15_OneMode ==
    Cardinality({m \in {"drag", "connection", "edit"} :
                    \/ m = "drag" /\ DOMAIN draggingNodes # {}
                    \/ m = "connection" /\ connectionDrag # <<>>
                    \/ m = "edit" /\ editing # <<>>}) <= 1

\* C16: while a text edit is in progress, the Delete, paste, undo and redo
\* shortcuts leave the node store, the edge store and both history stacks
\* unchanged.
C16_ShortcutsSuppressed ==
    [][(editing # <<>> /\ lastOp' \in {"delete", "paste", "undo", "redo"})
       => UNCHANGED <<nodes, edges, past, future>>]_vars

\* C17: in every state the camera scale lies between minScale and maxScale,
\* whatever scale a loaded project restored and whatever wheel steps
\* followed.
C17_ScaleInRange == FLeq(minScale, camera.scale) /\ FLeq(camera.scale, maxScale)

\* Points with whole coordinates, as numbers of the camera.
TestPoints ==
    {Point(FromInt(px), FromInt(py)) :
        px \in {0, 15, 29, 100}, py \in {0, 30, 41, 50}}

\* |a - b| is at most four units in the last place of a number of the size
\* of ref.
Close(a, b, ref) ==
    FLeq(FAbs(FSub(a, b)), FMul(RoundToFloat(4, -Precision), ref))

\* The sizes the conversions of p work with: to the canvas and back, the
\* coordinate and the offset; to the screen and back, the coordinate and the
\* offset in canvas units.
ScreenSize(cam, p) ==
    Point(FAdd(FAbs(p.x), FAbs(cam.x)), FAdd(FAbs(p.y), FAbs(cam.y)))

CanvasSize(cam, p) ==
    Point(FAdd(FAbs(p.x), FDiv(FAbs(cam.x), cam.scale)),
          FAdd(FAbs(p.y), FDiv(FAbs(cam.y), cam.scale)))

\* C19 as stated: for every camera with a non-zero scale and every point,
\* canvasToScreen(screenToCanvas(p)) is p, and screenToCanvas(canvasToScreen(p))
\* is p.
C19_CameraInverseExact ==
    camera.scale.m # 0 =>
        \A p \in TestPoints :
            LET c == screenToCanvasF(camera, p.x, p.y)
                s == canvasToScreenF(camera, p.x, p.y)
            IN  /\ canvasToScreenF(camera, c.x, c.y) = p
                /\ screenToCanvasF(camera, s.x, s.y) = p

\* C19, amended: the two round trips return p within a floating-point
\* tolerance, four units in the last place of the sizes involved.
C19_CameraInverse ==
    camera.scale.m # 0 =>
        \A p \in TestPoints :
            LET c == screenToCanvasF(camera, p.x, p.y)
                s == canvasToScreenF(camera, p.x, p.y)
                back == canvasToScreenF(camera, c.x, c.y)
                forth == screenToCanvasF(camera, s.x, s.y)
            IN  /\ Close(back.x, p.x, ScreenSize(camera, p).x)
                /\ Close(back.y, p.y, ScreenSize(camera, p).y)
                /\ Close(forth.x, p.x, CanvasSize(camera, p).x)
                /\ Close(forth.y, p.y, CanvasSize(camera, p).y)

\* A camera zoomed and panned by the wheel, under which a round trip of some
\* point is inexact.
C19_Witness ==
    /\ lastOp = "wheel"
    /\ camera.scale # FromInt(1)
    /\ camera.x.m # 0
    /\ \E p \in TestPoints :
           LET c == screenToCanvasF(camera, p.x, p.y)
           IN  canvasToScreenF(camera, c.x, c.y) # p

\* The pointer of a wheel step as numbers of the camera.
PointerF(pointer) == Point(FromInt(pointer.x), FromInt(pointer.y))

\* The sizes a wheel step works with at the pointer p, for the canvas point c
\* under it: the coordinate, and the pointer and the new offset in canvas
\* units.
AnchorSize(cam, p, c) ==
    Point(FAdd(FAbs(c.x), FDiv(FAdd(FAbs(p.x), FAbs(cam.x)), cam.scale)),
          FAdd(FAbs(c.y), FDiv(FAdd(FAbs(p.y), FAbs(cam.y)), cam.scale)))

\* C18 as stated: after a wheel step, clamped or not, the canvas point under
\* the pointer is the one that was under it before the step.
C18_PointerAnchoredExact ==
    [][\A pointer \in WheelPointers, direction \in {1, -1} :
         HandleWheel(pointer, direction)
         => LET p == PointerF(pointer)
            IN  screenToCanvasF(camera', p.x, p.y) = screenToCanvasF(camera, p.x, p.y)]_vars

\* C18, amended: after a wheel step, clamped or not, the canvas point under
\* the pointer is the one before the step within a floating-point tolerance,
\* four units in the last place of the sizes involved.
C18_PointerAnchored ==
    [][\A pointer \in WheelPointers, direction \in {1, -1} :
         HandleWheel(pointer, direction)
         => LET p == PointerF(pointer)
                before == screenToCanvasF(camera, p.x, p.y)
                after == screenToCanvasF(camera', p.x, p.y)
                size == AnchorSize(camera', p, before)
            IN  /\ Close(after.x, before.x, size.x)
                /\ Close(after.y, before.y, size.y)]_vars

\* After a wheel step that the maximum scale clamped, with a pan offset.
C18_Witness ==
    /\ lastOp = "wheel"
    /\ camera.scale = maxScale
    /\ camera.x.m # 0
    /\ camera.y.m # 0

\* The node an edge is drawn to or from: the stored node at its visual
\* position while it is dragged.
EffectiveNode(id) ==
    IF id \in DOMAIN draggingNodes
    THEN Merge(nodes[id], [x |-> draggingNodes[id].x, y |-> draggingNodes[id].y])
    ELSE nodes[id]

\* The four anchor points of a node: the middle of each side, for the
\* collapsed height when it is collapsed and its height otherwise.
Anchors(node) ==
    LET h == IF node.collapsed THEN TitleHeight + Spacing3 ELSE node.height
    IN  {<<node.x + node.width \div 2, node.y>>,
         <<node.x + node.width, node.y + h \div 2>>,
         <<node.x + node.width \div 2, node.y + h>>,
         <<node.x, node.y + h \div 2>>}

SquaredLength(x1, y1, x2, y2) == (x1 - x2) * (x1 - x2) + (y1 - y2) * (y1 - y2)

\* C20: for every two nodes as they are drawn, getArrowPoints returns an
\* anchor of the source and an anchor of the target, and none of the 16 pairs
\* of anchors is closer; for node 1 at (0, 0) and node 2 at (300, 0) of the
\* default size it returns (220, 70) and (300, 70).
C20_ClosestAnchors ==
    /\ getArrowPoints(NewNode(1, 0, 0), NewNode(2, 300, 0)) = <<220, 70, 300, 70>>
    /\ \A a, b \in DOMAIN nodes :
          a # b =>
            LET from == EffectiveNode(a)
                to == EffectiveNode(b)
                r == getArrowPoints(from, to)
            IN  /\ <<r[1], r[2]>> \in Anchors(from)
                /\ <<r[3], r[4]>> \in Anchors(to)
                /\ \A f \in Anchors(from), t \in Anchors(to) :
                       SquaredLength(r[1], r[2], r[3], r[4])
                           <= SquaredLength(f[1], f[2], t[1], t[2])

\* The edge 1 -> 2 drawn from the bottom of the collapsed node 1 to the top
\* of node 2, which was moved below it.
C20_Witness ==
    /\ DOMAIN nodes = {1, 2}
    /\ nodes[1].collapsed
    /\ nodes[2].y = 200
    /\ getArrowPoints(EffectiveNode(1), EffectiveNode(2)) =
          <<nodes[1].x + nodes[1].width \div 2, nodes[1].y + TitleHeight + Spacing3,
            nodes[2].x + nodes[2].width \div 2, nodes[2].y>>

\* C21: for every store, target and excluded id (NoId: none excluded),
\* findClosestHandleInNodes returns null iff no node but the excluded one
\* exists; otherwise a handle of a node other than the excluded one, its
\* distance to the target, and no handle of such a node is nearer.  A
\* connection drag is never snapped to its source node.
C21_ClosestAcrossNodes ==
    /\ \A ex \in DOMAIN nodes \cup {NoId}, p \in SnapPoints :
          LET r == findClosestHandleInNodes(nodes, p.x, p.y, ex)
              hs == OtherHandles(nodes, ex)
          IN  /\ (r = <<>>) <=> (DOMAIN nodes \ {ex} = {})
              /\ r # <<>> =>
                    /\ r[1].handle.nodeId # ex
                    /\ r[1].handle \in hs
                    /\ r[1].distance2 = Dist2(r[1].handle, p.x, p.y)
                    /\ \A g \in hs : r[1].distance2 <= Dist2(g, p.x, p.y)
    /\ connectionDrag # <<>> =>
          connectionDrag[1].snappedNodeId # connectionDrag[1].fromNodeId

\* A drag snapped to another node while a handle of its source node is
\* nearer to the pointer than any handle of another node.
C21_Witness ==
    /\ lastOp = "connectionMove"
    /\ connectionDrag # <<>>
    /\ connectionDrag[1].snappedNodeId # NoId
    /\ connectionDrag[1].fromNodeId \in DOMAIN nodes
    /\ LET d == connectionDrag[1]
       IN  \E own \in 1..4 :
               \A g \in OtherHandles(nodes, d.fromNodeId) :
                   Dist2(getHandlePoints(nodes[d.fromNodeId])[HandlePositions[own]],
                         d.currentX, d.currentY)
                       < Dist2(g, d.currentX, d.currentY)

\* C22: a save that fails, or that the dialog cancels, leaves the dirty flag
\* and the current file path as they were; a load that fails or returns no
\* data leaves nodes, edges, camera, project name, file path and dirty flag
\* as they were.
C22_FailedSaveLoadKeep ==
    [][/\ (lastOp' = "saveDone" /\ ~lastRet')
              => UNCHANGED <<isDirty, currentFilePath>>
       /\ (lastOp' = "save" /\ pendingSave' = <<>>)
              => UNCHANGED <<isDirty, currentFilePath>>
       /\ (lastOp' = "load" /\ ~lastRet')
              => UNCHANGED <<nodes, edges, camera, projectName, currentFilePath,
                             isDirty>>]_vars

\* A save failed while the project was dirty and had a file.
C22_Witness ==
    /\ lastOp = "saveDone"
    /\ ~lastRet
    /\ isDirty
    /\ currentFilePath = "a.json"
    /\ nodes # PannedProject.nodes

\* C23 as stated: right after a successful load the history is empty.
C23_LoadClearsHistory ==
    (lastOp = "load" /\ lastRet) => (past = <<>> /\ future = <<>>)

\* The six fields of the project the prompt protects.
ProjectFields == <<nodes, edges, camera, projectName, currentFilePath, isDirty>>

\* C24: with unsaved changes and the prompt declined, open and new project
\* change none of nodes, edges, camera, project name, file path and dirty
\* flag, and open starts no load; with no unsaved changes they proceed
\* whatever the answer would have been.
C24_DeclinedPromptKeeps ==
    [][/\ \A dialogResult \in DialogResults :
              KeyOpen(FALSE, dialogResult) =>
                  IF isDirty
                  THEN UNCHANGED ProjectFields /\ UNCHANGED pendingLoad
                  ELSE pendingLoad' = dialogResult
       /\ KeyNewProject(FALSE) =>
              IF isDirty
              THEN UNCHANGED ProjectFields
              ELSE /\ nodes' = EmptyMap
                   /\ edges' = EmptyMap
                   /\ camera' = [x |-> 0, y |-> 0, scale |-> 1]
                   /\ projectName' = "Untitled"
                   /\ currentFilePath' = ""
                   /\ isDirty' = FALSE]_vars

\* New project was declined on a dirty project with nodes.
C24_Witness ==
    /\ lastOp = "newProject"
    /\ ~lastRet
    /\ isDirty
    /\ nodes # EmptyMap

\* C25: the file a save writes parses to the node map, edge map, camera and
\* project name the save captured, and a load of the file that holds the
\* current project leaves node map, edge map, camera and project name as
\* they are.
C25_SaveLoadRoundTrip ==
    [][/\ (lastOp' = "saveDone" /\ lastRet') =>
              LET data == pendingSave[1].data
                  read == parse(disk'[pendingSave[1].filePath].text[1])
              IN  /\ read.nodes = data.nodes
                  /\ read.edges = data.edges
                  /\ read.meta = data.meta
       /\ (/\ lastOp' = "load"
           /\ lastRet'
           /\ pendingLoad[1] \in DOMAIN disk
           /\ disk[pendingLoad[1]].text = <<stringify(buildProjectData)>>)
              => UNCHANGED <<nodes, edges, camera, projectName>>]_vars

\* A file saved in this run was loaded back: one node left, no edge, the
\* camera zoomed and panned.
C25_Witness ==
    /\ lastOp = "load"
    /\ lastRet
    /\ currentFilePath \in DOMAIN disk
    /\ disk[currentFilePath].modified > 1
    /\ disk[currentFilePath].text = <<stringify(buildProjectData)>>
    /\ Cardinality(DOMAIN nodes) = 1
    /\ \E id \in DOMAIN nodes : nodes[id].titleColor = "unset"
    /\ camera.scale = 2

AtMost(limit, n) == IF n < limit THEN n ELSE limit

\* The .json files of the directory that hold a project.
ProjectFiles == {f \in DOMAIN disk : endsWith(f, ".json") /\ disk[f].text # <<>>}

\* C26 as stated: the list has at most 5 entries, the later modified first;
\* they are the 5 most recently modified project files (all when fewer),
\* each named by meta.name or, when that is missing, by the base name.
C26_RecentProjects ==
    lastOp = "listRecent" =>
        /\ Len(lastRet) <= MaxRecent
        /\ \A i, j \in 1..Len(lastRet) :
               i < j => /\ lastRet[i].modified >= lastRet[j].modified
                        /\ lastRet[i].filePath # lastRet[j].filePath
        /\ Len(lastRet) = AtMost(MaxRecent, Cardinality(ProjectFiles))
        /\ \A i \in 1..Len(lastRet) :
               LET file == lastRet[i].filePath
               IN  /\ file \in ProjectFiles
                   /\ lastRet[i].modified = disk[file].modified
                   /\ \A other \in ProjectFiles :
                          (\A j \in 1..Len(lastRet) : lastRet[j].filePath # other)
                              => disk[other].modified <= disk[file].modified
                   /\ lastRet[i].name =
                          IF MetaName(disk[file].text[1]) # "unset"
                          THEN MetaName(disk[file].text[1])
                          ELSE file.base

\* What the handler does keep: when every .json file parses, the list is as
\* C26 states but that an untitled project is named by its file.
C26_RecentProjectsParsed ==
    (lastOp = "listRecent"
        /\ \A f \in DOMAIN disk : endsWith(f, ".json") => disk[f].text # <<>>) =>
        /\ Len(lastRet) = AtMost(MaxRecent, Cardinality(ProjectFiles))
        /\ \A i, j \in 1..Len(lastRet) :
               i < j => /\ lastRet[i].modified >= lastRet[j].modified
                        /\ lastRet[i].filePath # lastRet[j].filePath
        /\ \A i \in 1..Len(lastRet) :
               LET file == lastRet[i].filePath
               IN  /\ file \in ProjectFiles
                   /\ lastRet[i].modified = disk[file].modified
                   /\ \A other \in ProjectFiles :
                          (\A j \in 1..Len(lastRet) : lastRet[j].filePath # other)
                              => disk[other].modified <= disk[file].modified
                   /\ lastRet[i].name =
                          IF MetaName(disk[file].text[1]) \notin {"unset", "Untitled"}
                          THEN MetaName(disk[file].text[1])
                          ELSE file.base

\* C27 as stated: after every node drag end, whether or not the dragged node
\* is selected, draggingNodes and dragStartPositions are both empty.
C27_DragEndClears ==
    lastOp = "dragEnd" => (draggingNodes = EmptyMap /\ dragStartPositions = EmptyMap)

\* The part of C27 that holds: a drag end leaves no entry of a selected node
\* in draggingNodes or dragStartPositions.
C27_DragEndClearsSelected ==
    lastOp = "dragEnd" =>
        /\ DOMAIN draggingNodes \cap selectedNodeIds = {}
        /\ DOMAIN dragStartPositions \cap selectedNodeIds = {}

\* C28: a plain click on a node makes the selection exactly that node; a
\* modifier-click toggles that node and leaves the other members; a click on
\* the empty canvas empties the node selection and clears the selected edge;
\* a click on an edge selects it and empties the node selection; none of
\* them changes nodes, edges, history or dirty flag.
C28_SelectionProtocol ==
    [][/\ \A n \in DOMAIN nodes :
              /\ HandleNodeClick(n, FALSE) => selectedNodeIds' = {n}
              /\ HandleNodeClick(n, TRUE) =>
                     /\ selectedNodeIds' \ {n} = selectedNodeIds \ {n}
                     /\ (n \in selectedNodeIds') <=> (n \notin selectedNodeIds)
       /\ HandleStageClick => (selectedNodeIds' = {} /\ selectedEdgeId' = NoId)
       /\ \A e \in DOMAIN edges :
              HandleEdgeClick(e) => (selectedEdgeId' = e /\ selectedNodeIds' = {})
       /\ lastOp' \in {"nodeClick", "stageClick", "edgeClick"}
              => UNCHANGED <<nodes, edges, past, future, isDirty>>]_vars

\* A click added a second node to the selection of an edited project.
C28_Witness ==
    /\ lastOp = "nodeClick"
    /\ Cardinality(selectedNodeIds) = 2
    /\ isDirty
    /\ past # <<>>

\* C29: Escape clears the node and edge selection, the edit descriptor and
\* the connection drag, and changes neither nodes, edges, history nor dirty
\* flag; the release of a connection drag that Escape cancelled creates no
\* edge and records nothing; text is written only for an edit that is open.
C29_EscapeCancels ==
    [][/\ lastOp' = "escape" =>
              /\ selectedNodeIds' = {}
              /\ selectedEdgeId' = NoId
              /\ editing' = <<>>
              /\ connectionDrag' = <<>>
              /\ UNCHANGED <<nodes, edges, past, future, isDirty>>
       /\ (gesture.kind = "conn" /\ connectionDrag = <<>> /\ lastOp' = "connectionEnd")
              => UNCHANGED <<nodes, edges, past, future, isDirty>>
       /\ lastOp' = "saveEdit" => editing # <<>>]_vars

\* Escape was pressed during a connection drag of an edited project, the
\* pointer still down.
C29_Witness ==
    /\ lastOp = "escape"
    /\ gesture.kind = "conn"
    /\ connectionDrag = <<>>
    /\ isDirty
    /\ past # <<>>

\* C30: with no edit in progress, Delete with an edge selected removes that
\* edge and leaves the nodes and the other edges; with no edge selected and
\* nodes selected it removes the selected nodes and leaves every other node;
\* the selection is empty afterwards; with nothing selected it changes
\* nothing and records no history.
C30_Deletion ==
    [][(lastOp' = "delete" /\ editing = <<>>) =>
           IF selectedEdgeId # NoId
           THEN /\ DOMAIN edges' = DOMAIN edges \ {selectedEdgeId}
                /\ \A e \in DOMAIN edges' : edges'[e] = edges[e]
                /\ nodes' = nodes
                /\ selectedEdgeId' = NoId
                /\ selectedNodeIds' = {}
           ELSE IF selectedNodeIds # {}
           THEN /\ DOMAIN nodes' = DOMAIN nodes \ selectedNodeIds
                /\ \A n \in DOMAIN nodes' : nodes'[n] = nodes[n]
                /\ selectedEdgeId' = NoId
                /\ selectedNodeIds' = {}
           ELSE UNCHANGED <<nodes, edges, past, future, isDirty,
                            selectedNodeIds, selectedEdgeId>>]_vars

\* Delete removed both nodes of the project at once.
C30_Witness ==
    /\ lastOp = "delete"
    /\ nodes = EmptyMap
    /\ selectedNodeIds = {}
    /\ past # <<>>
    /\ DOMAIN past[Len(past)].nodes = {1, 2}

\* C31 as stated: at the first drag move of a gesture on a selected node with
\* two or more nodes selected, every selected node has a start position, and
\* it is the position the store holds for the node.
C31_StartCapture ==
    [][(/\ lastOp' = "dragMove"
        /\ PointerFree
        /\ gesture'.id \in selectedNodeIds
        /\ Cardinality(selectedNodeIds) >= 2) =>
           \A id \in selectedNodeIds \cap DOMAIN nodes :
               /\ id \in DOMAIN dragStartPositions'
               /\ dragStartPositions'[id] = Point(nodes[id].x, nodes[id].y)]_vars

\* The part of C31 that holds: the capture is right when no start position
\* is left over from an earlier gesture.
C31_StartCaptureFresh ==
    [][(/\ lastOp' = "dragMove"
        /\ PointerFree
        /\ dragStartPositions = EmptyMap
        /\ gesture'.id \in selectedNodeIds
        /\ Cardinality(selectedNodeIds) >= 2) =>
           \A id \in selectedNodeIds \cap DOMAIN nodes :
               /\ id \in DOMAIN dragStartPositions'
               /\ dragStartPositions'[id] = Point(nodes[id].x, nodes[id].y)]_vars

\* C32: a resize stores the width max(w, minWidth) and the height
\* max(h, minHeight), and changes no other field and no other node; every
\* node keeps width >= minWidth and height >= minHeight through create,
\* resize, paste, undo and redo.
C32_ResizeClamps ==
    [][/\ \A n \in DOMAIN nodes, sz \in ClampSizes :
              HandleNodeResize(n, sz.width, sz.height) =>
                  /\ DOMAIN nodes' = DOMAIN nodes
                  /\ nodes'[n].width = Max(sz.width, MinWidth)
                  /\ nodes'[n].height = Max(sz.height, MinHeight)
                  /\ \A f \in DOMAIN nodes[n] \ {"width", "height"} :
                         nodes'[n][f] = nodes[n][f]
                  /\ \A other \in DOMAIN nodes \ {n} : nodes'[other] = nodes[other]
       /\ \A n \in DOMAIN nodes' :
              nodes'[n].width >= MinWidth /\ nodes'[n].height >= MinHeight]_vars

\* A resize below the minimum left a node at the minimum size.
C32_Witness ==
    /\ lastOp = "resize"
    /\ \E n \in DOMAIN nodes :
           nodes[n].width = MinWidth /\ nodes[n].height = MinHeight

\* C33: updateNode, moveNode, resizeNode, toggleCollapse and deleteNode with
\* an id that is not in the node store, and updateEdge and deleteEdge with an
\* id that is not in the edge store, leave both stores as they are; no call
\* changes the key or the id field of an entry that stays.
C33_AbsentIdNoOp ==
    [][/\ (lastOp' \in NodeStoreOps /\ lastRet' \notin DOMAIN nodes)
              => UNCHANGED <<nodes, edges>>
       /\ (lastOp' \in EdgeStoreOps /\ lastRet' \notin DOMAIN edges)
              => UNCHANGED <<nodes, edges>>
       /\ lastOp' \in NodeStoreOps \cup EdgeStoreOps =>
              /\ DOMAIN nodes' \subseteq DOMAIN nodes
              /\ DOMAIN edges' \subseteq DOMAIN edges
              /\ \A k \in DOMAIN nodes' : nodes'[k].id = k /\ nodes[k].id = k
              /\ \A k \in DOMAIN edges' : edges'[k].id = k /\ edges[k].id = k]_vars

\* A node operation was called with an id that an earlier call deleted.
C33_Witness ==
    /\ lastOp \in NodeStoreOps \ {"deleteNode"}
    /\ lastRet \notin DOMAIN nodes
    /\ lastRet \in DOMAIN LinkedProject.nodes
    /\ nodes # EmptyMap

\* C34: a pushState called with the in-progress flag set changes neither
\* stack; the flag is false after every undo and redo, whatever they
\* return; so a create or a collapse toggle always records the state it
\* changes.
C34_FlagSuppressesPush ==
    [][/\ pushState(History', TRUE, nodes', edges') = History'
       /\ lastOp' \in {"undo", "redo"} => ~isUndoingRef'
       /\ lastOp' \in {"create", "toggleCollapse"} =>
              /\ past' # <<>>
              /\ Last(past') = Snapshot(nodes, edges)
              /\ future' = <<>>]_vars

\* A redo was applied, with snapshots on both stacks.
C34_Witness ==
    /\ lastOp = "redo"
    /\ lastRet
    /\ ~isUndoingRef
    /\ past # <<>>
    /\ future # <<>>

\* What a cancelled dialog must leave alone: the project, the write and the
\* read in flight, and the files.
CancelFrame ==
    UNCHANGED <<nodes, edges, camera, currentFilePath, projectName, isDirty,
                pendingSave, pendingLoad, disk>>

\* C35: when the save dialog, the open dialog or the save-image dialog
\* returns null, no write or read is issued and nodes, edges, camera, file
\* path, project name and dirty flag are unchanged; an image export changes
\* neither nodes, edges nor history, written or not.
C35_CancelIsNoOp ==
    [][/\ (KeySave(<<>>) /\ currentFilePath = "") => CancelFrame
       /\ SaveAs(<<>>) => CancelFrame
       /\ \A confirmed \in BOOLEAN : KeyOpen(confirmed, <<>>) => CancelFrame
       /\ \A success \in BOOLEAN : KeyExportImage(<<>>, success) => CancelFrame
       /\ lastOp' = "exportImage" => UNCHANGED <<nodes, edges, past, future>>]_vars

\* The save dialog of a project without a file was cancelled.
C35_Witness ==
    /\ lastOp = "save"
    /\ currentFilePath = ""
    /\ pendingSave = <<>>
    /\ disk # InitialDisk

\* C36 as stated: whenever the dirty flag is false, nodes and edges are
\* those of the last successful save, load or new project: those of the
\* current file, or none when there is no file.
C36_CleanMeansSaved ==
    ~isDirty =>
        IF currentFilePath = ""
        THEN nodes = EmptyMap /\ edges = EmptyMap
        ELSE /\ currentFilePath \in DOMAIN disk
             /\ disk[currentFilePath].text # <<>>
             /\ parse(disk[currentFilePath].text[1]).nodes = nodes
             /\ parse(disk[currentFilePath].text[1]).edges = edges

\* The part of C36 that holds: a step that is not the completion of a write
\* keeps the statement.
C36_CleanMeansSavedButWrite ==
    [][(C36_CleanMeansSaved /\ lastOp' # "saveDone") => C36_CleanMeansSaved']_vars

\* C37 as stated: an edge that the release of a connection drag inserts has
\* both its endpoints in the node store.
C37_CommittedEdgeAttached ==
    [][lastOp' = "connectionEnd" =>
           \A e \in DOMAIN edges' \ DOMAIN edges :
               /\ edges'[e].from \in DOMAIN nodes'
               /\ edges'[e].to \in DOMAIN nodes']_vars

\* The part of C37 that holds: the inserted edge joins the source of the
\* drag to the node the drag was snapped to.
C37_CommittedEdgeJoinsSnap ==
    [][lastOp' = "connectionEnd" =>
           \A e \in DOMAIN edges' \ DOMAIN edges :
               /\ connectionDrag # <<>>
               /\ edges'[e].from = connectionDrag[1].fromNodeId
               /\ edges'[e].to = connectionDrag[1].snappedNodeId]_vars

\* C38: whenever an edge is selected no node is selected.
C38_SelectionsExclusive ==
    selectedEdgeId # NoId => selectedNodeIds = {}

\* An edge was clicked after a paste had selected the pasted nodes.
C38_Witness ==
    /\ lastOp = "edgeClick"
    /\ selectedEdgeId # NoId
    /\ copiedNodes # <<>>
    /\ Cardinality(DOMAIN nodes) > 2

\* C39 as stated: when the project is dirty and the prompt of the
\* new-project shortcut is declined, nodes and edges are unchanged and past
\* and future are exactly as before.
C39_DeclinedKeepsHistory ==
    [][(lastOp' = "newProject" /\ ~lastRet')
           => UNCHANGED <<nodes, edges, past, future>>]_vars

\* The part of C39 that holds: the declined shortcut leaves nodes and edges,
\* and the accepted one empties both stacks.
C39_DeclinedKeepsGraph ==
    [][lastOp' = "newProject" =>
           /\ ~lastRet' => UNCHANGED <<nodes, edges>>
           /\ lastRet' => (past' = <<>> /\ future' = <<>>)]_vars

\* C40: a handler of Canvas, other than a load or a new project, that
\* changes the node store or the edge store leaves
\* the dirty flag true; the flag goes from true to false only in a successful
\* save, a successful load or an accepted new project; an undo or a redo that
\* returns false leaves the flag as it was.
C40_DirtyAfterChange ==
    [][/\ (lastOp' \notin {"load", "newProject"}
              /\ <<nodes, edges>>' # <<nodes, edges>>)
             => isDirty'
       /\ (isDirty /\ ~isDirty')
             => (lastOp' \in {"saveDone", "load", "newProject"} /\ lastRet')
       /\ (lastOp' \in {"undo", "redo"} /\ ~lastRet')
             => UNCHANGED isDirty]_vars

\* After a successful save of an edited project, an undo has changed the node
\* store and the flag is true again.
C40_Witness ==
    /\ lastOp = "undo"
    /\ lastRet
    /\ isDirty
    /\ currentFilePath = "a.json"
    /\ disk["a.json"].text # <<stringify(SampleProject)>>
    /\ future # <<>>

====
